---- MODULE Spec2Model ----
(***************************************************************************)
(* A model of jax/_src/numpy/reductions.py: the generic reduction core     *)
(* (_reduction, _reduction_dims, _reduction_init_val), its dtype policy    *)
(* (_promote_integer_dtype, _upcast_f16) and the public presets built on   *)
(* it (sum, prod, max, min, all, any), the statistics (mean, average, var, *)
(* std) and the NaN-aware reductions (nanmin, nanmax, nansum, nanprod,     *)
(* nanmean, nanvar, nanstd).                                               *)
(*                                                                         *)
(* One call of a preset is walked through the stages of _reduction in the  *)
(* order of the code; every stage is one action.  A call of a statistic or *)
(* of a NaN-aware reduction is one action.  Arrays are records             *)
(* [shape, data, dtype] whose data maps index tuples (0-based) to values.  *)
(* Every value is an integer: booleans are 0/1, floats are the integers    *)
(* they hold exactly plus the three encodings NegInf, PosInf and NaN; a     *)
(* float that is no integer (a quotient, a square root) is held exactly as *)
(* the code of a reduced fraction or of the root of one.                   *)
(***************************************************************************)
EXTENDS Integers, Sequences, FiniteSets, TLC

(***************************************************************************)
(* Bounds of the model.                                                    *)
(***************************************************************************)
\* largest rank of an input array
MaxRank == 2
\* largest size of one dimension of an input array
MaxDim == 2
\* largest number of elements of an array whose content is enumerated
MaxSize == 4
\* largest number of entries of an axis tuple
MaxAxes == 2

(***************************************************************************)
(* Optional values: None is the empty tuple, a given value a 1-tuple.      *)
(***************************************************************************)
None == << >>
Some(x) == << x >>
IsNone(o) == Len(o) = 0
Get(o) == o[1]

(***************************************************************************)
(* The dtype lattice (jax._src.dtypes, numpy): kind and bit width.         *)
(***************************************************************************)
BoolDTypes == {"bool"}
SignedDTypes == {"int8", "int16", "int32", "int64"}
UnsignedDTypes == {"uint8", "uint16", "uint32", "uint64"}
FloatDTypes == {"float8_e4m3fn", "float16", "bfloat16", "float32", "float64"}
ComplexDTypes == {"complex64", "complex128"}
DTypes == BoolDTypes \cup SignedDTypes \cup UnsignedDTypes \cup FloatDTypes \cup ComplexDTypes

\* np.iinfo(dtype).bits / the storage width of the other kinds
Bits(d) ==
  CASE d \in {"bool", "int8", "uint8", "float8_e4m3fn"} -> 8
    [] d \in {"int16", "uint16", "float16", "bfloat16"} -> 16
    [] d \in {"int32", "uint32", "float32"} -> 32
    [] d \in {"int64", "uint64", "float64", "complex64"} -> 64
    [] OTHER -> 128

\* dtypes.issubdtype(d, np.integer): signed or unsigned
IsInteger(d) == d \in SignedDTypes \cup UnsignedDTypes
\* dtypes.issubdtype(d, np.inexact): floating or complex
IsInexact(d) == d \in FloatDTypes \cup ComplexDTypes

\* dtypes.int_ and dtypes.uint: the default integer dtypes under the x64 flag
DefaultInt(x64) == IF x64 THEN "int64" ELSE "int32"
DefaultUint(x64) == IF x64 THEN "uint64" ELSE "uint32"

\* dtypes.canonicalize_dtype: 64-bit dtypes narrow to 32 bits unless x64 is on
CanonicalizeDType(d, x64) ==
  IF x64 THEN d
  ELSE CASE d = "int64" -> "int32"
         [] d = "uint64" -> "uint32"
         [] d = "float64" -> "float32"
         [] d = "complex128" -> "complex64"
         [] OTHER -> d

\* dtypes.supports_inf: float8_e4m3fn has NaN but no infinities
SupportsInf(d) == d \in FloatDTypes \ {"float8_e4m3fn"}

(***************************************************************************)
(* Values.  An integer dtype of at most 16 bits has its true range and     *)
(* wraps modulo 2^bits.  The model checker's integers are 32 bits wide, so *)
(* the wider dtypes share the range -2^31 .. 2^31-1: the model never       *)
(* leaves it (the checker fails on an overflow), and their extremes are    *)
(* only compared, never added to.                                          *)
(***************************************************************************)
BigMax == (2^30 - 1) + 2^30
BigMin == (-(2^30)) - 2^30

\* np.iinfo(d).min, np.iinfo(d).max
IInfoMin(d) ==
  IF d \in UnsignedDTypes THEN 0
  ELSE IF Bits(d) <= 16 THEN -(2^(Bits(d) - 1)) ELSE BigMin
IInfoMax(d) ==
  IF Bits(d) > 16 THEN BigMax
  ELSE IF d \in UnsignedDTypes THEN 2^Bits(d) - 1 ELSE 2^(Bits(d) - 1) - 1

\* the encodings of the float special values; finite floats lie strictly between
PosInf == 2^30
NegInf == -(2^30)
NaN == 2^30 + 1
\* dtypes.finfo(d).max (the largest finite value); finfo(d).min is its negation
FInfoMax(d) ==
  CASE d = "float8_e4m3fn" -> 448
    [] d = "float16" -> 65504
    [] OTHER -> 2^24
FInfoMin(d) == -FInfoMax(d)

(***************************************************************************)
(* Floats that are not integers.  The reduced fraction n/d with d >= 2 is  *)
(* the code FracBase + (n + NumOff) * DenLim + d, the irrational square    *)
(* root of the reduced fraction n/d >= 0 is the code                       *)
(* SqrtBase + n * DenLim + d; every code lies above NaN.  The arithmetic   *)
(* on them is exact: no rounding error is modelled.                        *)
(***************************************************************************)
DenLim == 2^12
NumOff == 2^15
FracBase == 2^30 + 2
SqrtBase == 2^30 + 2^29
IsSqrt(x) == x >= SqrtBase
IsFrac(x) == x >= FracBase /\ x < SqrtBase
Abs(x) == IF x < 0 THEN -x ELSE x
RECURSIVE Gcd(_, _)
Gcd(x, y) == IF y = 0 THEN x ELSE Gcd(y, x % y)
\* numerator and denominator of a finite value
Num(x) == IF IsFrac(x) THEN ((x - FracBase) \div DenLim) - NumOff ELSE x
Den(x) == IF IsFrac(x) THEN (x - FracBase) % DenLim ELSE 1
\* the value n/d for d # 0
MkQ(n, d) ==
  LET g == Gcd(Abs(n), Abs(d))
      rn == (IF d < 0 THEN -n ELSE n) \div g
      rd == Abs(d) \div g
  IN IF rd = 1 THEN rn ELSE FracBase + (rn + NumOff) * DenLim + rd
\* x <= y for values that are not NaN
FLessEq(x, y) ==
  IF ~IsFrac(x) /\ ~IsFrac(y) THEN x <= y
  ELSE IF x = NegInf \/ y = PosInf THEN TRUE
  ELSE IF x = PosInf \/ y = NegInf THEN FALSE
  ELSE Num(x) * Den(y) <= Num(y) * Den(x)
\* the integer part of a finite value (rounding toward zero)
Trunc(x) ==
  IF ~IsFrac(x) THEN x
  ELSE IF Num(x) >= 0 THEN Num(x) \div Den(x) ELSE -((-Num(x)) \div Den(x))

\* two's-complement wrap-around of an integer result into dtype d
Wrap(x, d) ==
  IF IsInteger(d) /\ Bits(d) <= 16
  THEN ((x - IInfoMin(d)) % (2^Bits(d))) + IInfoMin(d)
  ELSE x

\* round a float result into dtype d: overflow gives an infinity, or NaN when
\* the dtype has none
FRound(x, d) ==
  IF IsFrac(x) THEN x
  ELSE IF x > FInfoMax(d) THEN (IF SupportsInf(d) THEN PosInf ELSE NaN)
  ELSE IF x < FInfoMin(d) THEN (IF SupportsInf(d) THEN NegInf ELSE NaN)
  ELSE x
IsInfV(x) == x = PosInf \/ x = NegInf

\* lax.add / lax.mul on floats: NaN propagates, inf - inf and 0 * inf are NaN
FAdd(x, y, d) ==
  IF x = NaN \/ y = NaN THEN NaN
  ELSE IF IsInfV(x) /\ IsInfV(y) THEN (IF x = y THEN x ELSE NaN)
  ELSE IF IsInfV(x) THEN x
  ELSE IF IsInfV(y) THEN y
  ELSE FRound(MkQ(Num(x) * Den(y) + Num(y) * Den(x), Den(x) * Den(y)), d)
FMul(x, y, d) ==
  IF x = NaN \/ y = NaN THEN NaN
  ELSE IF IsInfV(x) \/ IsInfV(y)
       THEN (IF x = 0 \/ y = 0 THEN NaN
             ELSE IF (x > 0) = (y > 0) THEN PosInf ELSE NegInf)
  ELSE FRound(MkQ(Num(x) * Num(y), Den(x) * Den(y)), d)

\* the binary operators handed to the backend (lax.add, lax.mul, lax.max,
\* lax.min, lax.bitwise_or, lax.bitwise_and) on values of dtype d
ApplyOp(op, x, y, d) ==
  CASE op = "add" -> IF d \in FloatDTypes THEN FAdd(x, y, d) ELSE Wrap(x + y, d)
    [] op = "mul" -> IF d \in FloatDTypes THEN FMul(x, y, d) ELSE Wrap(x * y, d)
    [] op = "max" -> IF d \in FloatDTypes /\ (x = NaN \/ y = NaN) THEN NaN
                     ELSE IF d \in FloatDTypes
                     THEN (IF FLessEq(y, x) THEN x ELSE y)
                     ELSE IF x >= y THEN x ELSE y
    [] op = "min" -> IF d \in FloatDTypes /\ (x = NaN \/ y = NaN) THEN NaN
                     ELSE IF d \in FloatDTypes
                     THEN (IF FLessEq(x, y) THEN x ELSE y)
                     ELSE IF x <= y THEN x ELSE y
    [] op = "or" -> IF x = 1 \/ y = 1 THEN 1 ELSE 0
    [] op = "and" -> IF x = 1 /\ y = 1 THEN 1 ELSE 0

\* lax.convert_element_type of one value to dtype d
ConvertValue(v, d) ==
  IF d = "bool" THEN (IF v = 0 THEN 0 ELSE 1)
  ELSE IF IsInteger(d) THEN Wrap(Trunc(v), d)
  ELSE v

(***************************************************************************)
(* Arrays: shape, data over the index tuples of the shape, dtype.          *)
(***************************************************************************)
RECURSIVE Indices(_)
Indices(shape) ==
  IF shape = << >> THEN { << >> }
  ELSE { << h >> \o t : h \in 0 .. (shape[1] - 1), t \in Indices(Tail(shape)) }

\* the entries of s whose 0-based position (counted from k) is not in D
RECURSIVE DropAt(_, _, _)
DropAt(s, D, k) ==
  IF s = << >> THEN << >>
  ELSE (IF k \in D THEN << >> ELSE << Head(s) >>) \o DropAt(Tail(s), D, k + 1)

SeqToSet(s) == { s[k] : k \in 1 .. Len(s) }
RECURSIVE ProdSeq(_)
ProdSeq(s) == IF s = << >> THEN 1 ELSE Head(s) * ProdSeq(Tail(s))

MkArray(shape, data, dtype) == [shape |-> shape, data |-> data, dtype |-> dtype]
Rank(a) == Len(a.shape)
\* lax.convert_element_type of an array
ConvertElementType(a, d) ==
  MkArray(a.shape, [i \in Indices(a.shape) |-> ConvertValue(a.data[i], d)], d)

\* the position of an index in row-major order
RECURSIVE LinearIndex(_, _)
LinearIndex(idx, shape) ==
  IF idx = << >> THEN 0
  ELSE LinearIndex(SubSeq(idx, 1, Len(idx) - 1), SubSeq(shape, 1, Len(shape) - 1))
         * shape[Len(shape)] + idx[Len(idx)]
\* lax.reshape(a, shape): the same elements in row-major order
Reshape(a, shape) ==
  MkArray(shape,
          [j \in Indices(shape) |->
             a.data[CHOOSE i \in Indices(a.shape) :
                      LinearIndex(i, a.shape) = LinearIndex(j, shape)]],
          a.dtype)
\* lax.transpose(a, perm): dimension k of the result is dimension perm[k] of a
Transpose(a, perm) ==
  LET n == Len(perm)
      shape == [k \in 1 .. n |-> a.shape[perm[k] + 1]]
  IN MkArray(shape,
             [j \in Indices(shape) |->
                a.data[[m \in 1 .. n |-> j[CHOOSE k \in 1 .. n : perm[k] + 1 = m]]]],
             a.dtype)
\* the value at position k of the running fold of op along axis through index i
RECURSIVE CumulativeAt(_, _, _, _, _)
CumulativeAt(op, a, i, axis, k) ==
  LET x == a.data[[i EXCEPT ![axis + 1] = k]]
  IN IF k = 0 THEN x ELSE ApplyOp(op, CumulativeAt(op, a, i, axis, k - 1), x, a.dtype)
\* lax.cumsum / lax.cumprod along axis
LaxCumulative(op, a, axis) ==
  MkArray(a.shape,
          [i \in Indices(a.shape) |-> CumulativeAt(op, a, i, axis, i[axis + 1])],
          a.dtype)

\* fold op over the elements of a at the index set S, starting from acc
RECURSIVE FoldIdx(_, _, _, _)
FoldIdx(op, acc, S, a) ==
  IF S = {} THEN acc
  ELSE LET i == CHOOSE j \in S : TRUE
       IN FoldIdx(op, ApplyOp(op, acc, a.data[i], a.dtype), S \ {i}, a)

\* lax.reduce(a, init, op, dims): every output element is the fold of op over
\* the slice along dims, started from init
LaxReduce(a, init, op, dims) ==
  LET D == SeqToSet(dims)
      oshape == DropAt(a.shape, D, 0)
  IN MkArray(oshape,
             [o \in Indices(oshape) |->
                FoldIdx(op, init, {i \in Indices(a.shape) : DropAt(i, D, 0) = o}, a)],
             a.dtype)

\* lax.expand_dims(a, dims): singleton dimensions inserted so that they sit at
\* positions dims of the output
RECURSIVE InsertOnes(_, _, _)
InsertOnes(s, D, k) ==
  IF k \in D THEN << 1 >> \o InsertOnes(s, D, k + 1)
  ELSE IF s = << >> THEN << >>
  ELSE << Head(s) >> \o InsertOnes(Tail(s), D, k + 1)
ExpandDims(a, dims) ==
  LET D == SeqToSet(dims)
      oshape == InsertOnes(a.shape, D, 0)
  IN MkArray(oshape, [i \in Indices(oshape) |-> a.data[DropAt(i, D, 0)]], a.dtype)

\* numpy broadcasting of two shapes (right-aligned); << -1 >> when incompatible
PadLeft(s, n) == [k \in 1 .. n |-> IF k <= n - Len(s) THEN 1 ELSE s[k - (n - Len(s))]]
MaxInt(x, y) == IF x >= y THEN x ELSE y
BroadcastShapes(s, t) ==
  LET n == MaxInt(Len(s), Len(t))
      ps == PadLeft(s, n)
      pt == PadLeft(t, n)
  IN IF \A k \in 1 .. n : ps[k] = pt[k] \/ ps[k] = 1 \/ pt[k] = 1
     THEN [k \in 1 .. n |-> IF ps[k] = 1 THEN pt[k] ELSE ps[k]]
     ELSE << -1 >>
\* the index of a that index i of the broadcast shape reads
BroadcastIndex(i, shape) ==
  LET off == Len(i) - Len(shape)
  IN [k \in 1 .. Len(shape) |-> IF shape[k] = 1 THEN 0 ELSE i[k + off]]
BroadcastTo(a, shape) ==
  MkArray(shape, [i \in Indices(shape) |-> a.data[BroadcastIndex(i, a.shape)]], a.dtype)

\* _where(cond, a, v) with a scalar v: cond and a broadcast against each other,
\* then an elementwise select
Where(cond, a, v) ==
  LET shape == BroadcastShapes(cond.shape, a.shape)
      c == BroadcastTo(cond, shape)
      b == BroadcastTo(a, shape)
  IN MkArray(shape, [i \in Indices(shape) |-> IF c.data[i] # 0 THEN b.data[i] ELSE v],
             a.dtype)

(***************************************************************************)
(* Dtype policy.                                                           *)
(***************************************************************************)
\* _upcast_f16: the 16-bit floats are computed in float32
_upcast_f16(dtype) ==
  IF dtype \in {"float16", "bfloat16"} THEN "float32" ELSE dtype

_promote_integer_dtype_SignedOnly(dtype, x64) ==
  IF dtype \in BoolDTypes THEN DefaultInt(x64)
  ELSE IF dtype \in SignedDTypes
       THEN (IF Bits(dtype) < Bits(DefaultInt(x64)) THEN DefaultInt(x64) ELSE dtype)
  ELSE dtype
\* _promote_integer_dtype: bool and the integers narrower than the default
\* are promoted to the default integer of their signedness
_promote_integer_dtype(dtype, x64) ==
  IF dtype \in BoolDTypes THEN DefaultInt(x64)
  ELSE IF dtype \in UnsignedDTypes
       THEN (IF Bits(dtype) < Bits(DefaultUint(x64)) THEN DefaultUint(x64) ELSE dtype)
  ELSE IF dtype \in SignedDTypes
       THEN (IF Bits(dtype) < Bits(DefaultInt(x64)) THEN DefaultInt(x64) ELSE dtype)
  ELSE dtype

\* promote_dtypes_numeric (the preproc of sum and prod): bool becomes int32,
\* every other dtype is kept
_cast_to_numeric(a, x64) ==
  IF a.dtype = "bool" THEN ConvertElementType(a, "int32") ELSE a
\* the preproc of all and any
_cast_to_bool(a) == ConvertElementType(a, "bool")

(***************************************************************************)
(* Axis specifications.  An entry is an integer axis or a named axis; the  *)
(* named axes are the entries from NamedBase up.  An axis argument is      *)
(* [kind |-> "none" | "int" | "seq", v |-> the entries].                   *)
(***************************************************************************)
NamedBase == 100
IsNamed(x) == x >= NamedBase
AxisNone == [kind |-> "none", v |-> << >>]
AxisInt(x) == [kind |-> "int", v |-> << x >>]
AxisSeq(s) == [kind |-> "seq", v |-> s]

\* _canonicalize_axis(x, rank): out of range unless -rank <= x < rank
AxisInRange(x, rank) == -rank <= x /\ x < rank
_canonicalize_axis(x, rank) == IF x < 0 THEN x + rank ELSE x
_canonicalize_axis_allow_named_Clipped(x, rank) ==
  IF IsNamed(x) THEN x ELSE IF x < 0 THEN 0 ELSE x
\* _canonicalize_axis_allow_named: a named axis is kept as it is
_canonicalize_axis_allow_named(x, rank) ==
  IF IsNamed(x) THEN x ELSE _canonicalize_axis(x, rank)

SelectPositional(s) == SelectSeq(s, LAMBDA x : ~IsNamed(x))

_reduction_dims_LiteralDuplicates(rank, axis) ==
  IF axis.kind = "none"
  THEN [err |-> "none", pos_dims |-> [k \in 1 .. rank |-> k - 1],
        dims |-> [k \in 1 .. rank |-> k - 1]]
  ELSE LET canon_axis ==
             [k \in 1 .. Len(axis.v) |-> _canonicalize_axis_allow_named(axis.v[k], rank)]
       IN IF \E k \in 1 .. Len(axis.v) :
                ~IsNamed(axis.v[k]) /\ ~AxisInRange(axis.v[k], rank)
          THEN [err |-> "axis_out_of_bounds", pos_dims |-> << >>, dims |-> << >>]
          ELSE IF Len(axis.v) # Cardinality(SeqToSet(axis.v))
          THEN [err |-> "duplicate_axis", pos_dims |-> << >>, dims |-> << >>]
          ELSE [err |-> "none", pos_dims |-> SelectPositional(canon_axis),
                dims |-> canon_axis]
\* _reduction_dims(a, axis): the positional axes and all the axes reduced, or
\* the error raised
_reduction_dims(rank, axis) ==
  IF axis.kind = "none"
  THEN [err |-> "none", pos_dims |-> [k \in 1 .. rank |-> k - 1],
        dims |-> [k \in 1 .. rank |-> k - 1]]
  ELSE LET canon_axis ==
             [k \in 1 .. Len(axis.v) |-> _canonicalize_axis_allow_named(axis.v[k], rank)]
       IN IF \E k \in 1 .. Len(axis.v) :
                ~IsNamed(axis.v[k]) /\ ~AxisInRange(axis.v[k], rank)
          THEN [err |-> "axis_out_of_bounds", pos_dims |-> << >>, dims |-> << >>]
          ELSE IF Len(canon_axis) # Cardinality(SeqToSet(canon_axis))
          THEN [err |-> "duplicate_axis", pos_dims |-> << >>, dims |-> << >>]
          ELSE [err |-> "none", pos_dims |-> SelectPositional(canon_axis),
                dims |-> canon_axis]

(***************************************************************************)
(* The identity handed to the backend.                                     *)
(***************************************************************************)
_reduction_init_val_NonNegative(dtype, init_val, x64) ==
  IF CanonicalizeDType(dtype, x64) = "bool" THEN (IF init_val >= 0 THEN 1 ELSE 0)
  ELSE IF IsInteger(dtype) /\ IsInfV(init_val)
       THEN (IF init_val < 0 THEN IInfoMin(dtype) ELSE IInfoMax(dtype))
  ELSE init_val
\* _reduction_init_val(a, init_val), a_dtype the dtype of a
_reduction_init_val(dtype, init_val, x64) ==
  LET a_dtype == CanonicalizeDType(dtype, x64)
      clamped == IF IsInfV(init_val) /\ a_dtype \in FloatDTypes /\ ~SupportsInf(a_dtype)
                 THEN (IF init_val = NegInf THEN FInfoMin(a_dtype) ELSE FInfoMax(a_dtype))
                 ELSE init_val
  IN IF a_dtype = "bool" THEN (IF init_val > 0 THEN 1 ELSE 0)
     ELSE IF IsInteger(a_dtype) /\ IsInfV(clamped)
          \* OverflowError: fall back to the dtype's extreme by sign
          THEN (IF clamped < 0 THEN IInfoMin(a_dtype) ELSE IInfoMax(a_dtype))
     ELSE clamped

(***************************************************************************)
(* The presets: what each public function passes to _reduction.            *)
(***************************************************************************)
Names == {"sum", "prod", "max", "min", "all", "any", "amax", "amin"}
\* amax and amin are aliases of max and min
ReductionName(name) ==
  CASE name = "amax" -> "max" [] name = "amin" -> "min" [] OTHER -> name
Preset(name) ==
  CASE ReductionName(name) = "sum" ->
         [op |-> "add", init_val |-> 0, has_identity |-> TRUE, preproc |-> "numeric",
          bool_op |-> "or", upcast_f16_for_computation |-> TRUE, parallel_reduce |-> TRUE]
    [] ReductionName(name) = "prod" ->
         [op |-> "mul", init_val |-> 1, has_identity |-> TRUE, preproc |-> "numeric",
          bool_op |-> "and", upcast_f16_for_computation |-> TRUE, parallel_reduce |-> FALSE]
    [] ReductionName(name) = "max" ->
         [op |-> "max", init_val |-> NegInf, has_identity |-> FALSE, preproc |-> "none",
          bool_op |-> "max", upcast_f16_for_computation |-> FALSE, parallel_reduce |-> TRUE]
    [] ReductionName(name) = "min" ->
         [op |-> "min", init_val |-> PosInf, has_identity |-> FALSE, preproc |-> "none",
          bool_op |-> "min", upcast_f16_for_computation |-> FALSE, parallel_reduce |-> TRUE]
    [] ReductionName(name) = "all" ->
         [op |-> "and", init_val |-> 1, has_identity |-> TRUE, preproc |-> "bool",
          bool_op |-> "and", upcast_f16_for_computation |-> FALSE, parallel_reduce |-> FALSE]
    [] ReductionName(name) = "any" ->
         [op |-> "or", init_val |-> 0, has_identity |-> TRUE, preproc |-> "bool",
          bool_op |-> "or", upcast_f16_for_computation |-> FALSE, parallel_reduce |-> FALSE]

(***************************************************************************)
(* The stages of _reduction, in the order of the code.  A call is          *)
(* [name, a, axis, dtype, out, keepdims, initial, where_,                  *)
(*  promote_integers]; dtype, out, initial and where_ are optional.        *)
(***************************************************************************)
\* the guard of the "does not have an identity" error
MaskWithoutIdentity_IgnoringInitial(name, initial, where_) ==
  ~Preset(name).has_identity /\ ~IsNone(where_)
MaskWithoutIdentity(name, initial, where_) ==
  IsNone(initial) /\ ~Preset(name).has_identity /\ ~IsNone(where_)

\* the errors raised before the input is touched
CheckArgs(c) ==
  IF ~IsNone(c.out) THEN "out_not_supported"
  ELSE IF MaskWithoutIdentity(c.name, c.initial, c.where_) THEN "no_identity_where"
  ELSE "none"

\* a = preproc(a) if preproc else a
Preproc(name, arr, x64) ==
  CASE Preset(name).preproc = "numeric" -> _cast_to_numeric(arr, x64)
    [] Preset(name).preproc = "bool" -> _cast_to_bool(arr)
    [] OTHER -> arr

ZeroSizeWithoutIdentity_AnyAxis(name, initial, shape, pos) ==
  /\ IsNone(initial)
  /\ ~Preset(name).has_identity
  /\ ~(\A k \in 1 .. Len(shape) : shape[k] >= 1)
\* the guard of the "zero-size array" error
ZeroSizeWithoutIdentity(name, initial, shape, pos) ==
  /\ IsNone(initial)
  /\ ~Preset(name).has_identity
  /\ ~(\A k \in 1 .. Len(pos) : shape[pos[k] + 1] >= 1)

\* if dtype is None and promote_integers: the guard of the integer promotion
PromotionApplies(dtype, promote_integers) == IsNone(dtype) /\ promote_integers

\* result_dtype: an explicit dtype wins, else the input's, promoted on request
ResultDType(dtype, a_dtype, promote_integers, x64) ==
  LET given == IF IsNone(dtype) THEN a_dtype ELSE Get(dtype)
      wide == IF PromotionApplies(dtype, promote_integers)
              THEN _promote_integer_dtype(given, x64) ELSE given
  IN CanonicalizeDType(wide, x64)

ComputationDType_Unconditional(name, rdtype) ==
  IF IsInexact(rdtype) THEN _upcast_f16(rdtype) ELSE rdtype
\* computation_dtype: 16-bit floats are upcast when the preset asks for it
ComputationDType(name, rdtype) ==
  IF Preset(name).upcast_f16_for_computation /\ IsInexact(rdtype)
  THEN _upcast_f16(rdtype) ELSE rdtype

\* op = op if computation_dtype != np.bool_ else bool_op
SelectOp(name, cdtype) ==
  IF cdtype # "bool" THEN Preset(name).op ELSE Preset(name).bool_op

MaskedInput_ZeroFill(arr, where_, init) ==
  IF IsNone(where_) THEN arr ELSE Where(Get(where_), arr, 0)
\* a = _where(where_, a, init_val) when a mask is given
MaskedInput(arr, where_, init) ==
  IF IsNone(where_) THEN arr ELSE Where(Get(where_), arr, init)

\* whether the mask and the input broadcast against each other
MaskBroadcasts(arr, where_) ==
  IsNone(where_) \/ BroadcastShapes(Get(where_).shape, arr.shape) # << -1 >>

HasNamedAxis_Never(pos, ds) == FALSE
\* pos_dims is not dims: some reduced axis is named
HasNamedAxis(pos, ds) == pos # ds

\* parallel_reduce(a, dims) (lax.psum, lax.pmax, lax.pmin): the positional axes
\* are reduced locally; the named axes hold one participant in this model
ParallelReduce(arr, init, o, ds) == LaxReduce(arr, init, o, SelectPositional(ds))

\* initial_arr = lax.convert_element_type(initial, a.dtype)
InitialArr(initial, dtype) == ConvertValue(Get(initial).v, dtype)
InitialIsScalar(initial) == Get(initial).shape = << >>

CombineInitial_Dropped(o, initial, res) == res
\* result = op(initial_arr, result)
CombineInitial(o, initial, res) ==
  IF IsNone(initial) THEN res
  ELSE MkArray(res.shape,
               [i \in Indices(res.shape) |->
                  ApplyOp(o, InitialArr(initial, res.dtype), res.data[i], res.dtype)],
               res.dtype)

Finish_WithoutKeepdims(res, keepdims, pos, dtype, rdtype, x64) ==
  ConvertElementType(res, IF IsNone(dtype) THEN rdtype
                          ELSE CanonicalizeDType(Get(dtype), x64))
\* keepdims, then the cast to dtype or result_dtype
Finish(res, keepdims, pos, dtype, rdtype, x64) ==
  LET kept == IF keepdims THEN ExpandDims(res, pos) ELSE res
      out_dtype == IF IsNone(dtype) THEN rdtype ELSE CanonicalizeDType(Get(dtype), x64)
  IN ConvertElementType(kept, out_dtype)

\* the error of a call that raises: no array is returned
Raised(e) == [err |-> e, result |-> MkArray(<< >>, [i \in {<< >>} |-> 0], "bool")]
\* lines 104-149: the errors in the order of the code, then the reduction of
\* the masked input a2 over the axes rd, the initial value, keepdims, the cast
ReductionResult(c, a1, rd, rdtype, o, init, a2, x64) ==
  IF CheckArgs(c) # "none" THEN Raised(CheckArgs(c))
  ELSE IF rd.err # "none" THEN Raised(rd.err)
  ELSE IF ZeroSizeWithoutIdentity(c.name, c.initial, a1.shape, rd.pos_dims)
       THEN Raised("zero_size")
  ELSE IF ~MaskBroadcasts(a1, c.where_) THEN Raised("incompatible_shapes")
  ELSE IF HasNamedAxis(rd.pos_dims, rd.dims) /\ ~Preset(c.name).parallel_reduce
       THEN Raised("named_not_implemented")
  ELSE IF ~IsNone(c.initial) /\ ~InitialIsScalar(c.initial)
       THEN Raised("initial_not_scalar")
  ELSE [err |-> "none",
        result |-> Finish(CombineInitial(o, c.initial,
                                         IF HasNamedAxis(rd.pos_dims, rd.dims)
                                         THEN ParallelReduce(a2, init, o, rd.dims)
                                         ELSE LaxReduce(a2, init, o, rd.dims)),
                          c.keepdims, rd.pos_dims, c.dtype, rdtype, x64)]
\* lines 128-134: the operator and the masked input in the computation dtype
ReductionIn(c, a1, rd, rdtype, cdtype, init, x64) ==
  ReductionResult(c, a1, rd, rdtype, SelectOp(c.name, cdtype), init,
                  MaskedInput(ConvertElementType(a1, cdtype), c.where_, init), x64)
\* line 132: the identity handed to the backend
ReductionAs(c, a1, rd, rdtype, cdtype, x64) ==
  ReductionIn(c, a1, rd, rdtype, cdtype,
              _reduction_init_val(cdtype, Preset(c.name).init_val, x64), x64)
\* lines 110 and 124-127: the axes reduced and the computation dtype
ReductionOf(c, a1, rdtype, x64) ==
  ReductionAs(c, a1, _reduction_dims(Rank(a1), c.axis), rdtype,
              ComputationDType(c.name, rdtype), x64)
\* lines 117-122: the result dtype of the preprocessed input a1
ReductionOn(c, a1, x64) ==
  ReductionOf(c, a1, ResultDType(c.dtype, a1.dtype, c.promote_integers, x64), x64)
\* the whole of _reduction as a function of the call: the error raised, or the
\* array returned
Reduction(c, x64) == ReductionOn(c, Preproc(c.name, c.a, x64), x64)

(***************************************************************************)
(* State: one call in progress.                                            *)
(***************************************************************************)
VARIABLES
  x64,                \* the jax_enable_x64 flag
  pc,                 \* the stage of _reduction the call is at
  call,               \* the arguments of the call
  a,                  \* the local a of _reduction
  pos_dims, dims,     \* the result of _reduction_dims
  result_dtype, computation_dtype,
  op, init_val,       \* the operator and the identity handed to the backend
  result,             \* the local result
  err,                \* the error raised, "none" while there is none
  backend,            \* the backend invocations made by the call, in order
  promoted            \* the dtype given to and returned by _promote_integer_dtype
                      \* in this call, None while it was not applied

vars == << x64, pc, call, a, pos_dims, dims, result_dtype, computation_dtype,
           op, init_val, result, err, backend, promoted >>

Scalar(v, dtype) == MkArray(<< >>, [i \in {<< >>} |-> v], dtype)
NoArray == Scalar(0, "bool")
NoCall ==
  [name |-> "sum", a |-> NoArray, axis |-> AxisNone, dtype |-> None, out |-> None,
   keepdims |-> FALSE, initial |-> None, where_ |-> None, promote_integers |-> TRUE]

Init ==
  /\ x64 = FALSE
  /\ pc = "idle"
  /\ call = NoCall
  /\ a = NoArray
  /\ pos_dims = << >>
  /\ dims = << >>
  /\ result_dtype = "bool"
  /\ computation_dtype = "bool"
  /\ op = "add"
  /\ init_val = 0
  /\ result = NoArray
  /\ err = "none"
  /\ backend = << >>
  /\ promoted = None

\* a public function is called with arguments c under the flag value flag
Enter(c, flag) ==
  /\ pc = "idle"
  /\ x64' = flag
  /\ call' = c
  /\ a' = c.a
  /\ pc' = "check_args"
  /\ UNCHANGED << pos_dims, dims, result_dtype, computation_dtype, op, init_val,
                  result, err, backend, promoted >>

Raise(e) ==
  /\ err' = e
  /\ pc' = "error"

\* lines 98-106: the unsupported out argument, the mask without an identity
CheckArgsStep ==
  /\ pc = "check_args"
  /\ IF CheckArgs(call) # "none"
     THEN Raise(CheckArgs(call))
     ELSE pc' = "reduction_dims" /\ err' = err
  /\ UNCHANGED << x64, call, a, pos_dims, dims, result_dtype, computation_dtype,
                  op, init_val, result, backend, promoted >>

\* lines 108-115: preproc, _reduction_dims, the zero-size check
ReductionDimsStep ==
  /\ pc = "reduction_dims"
  /\ LET a1 == Preproc(call.name, a, x64)
         rd == _reduction_dims(Rank(a1), call.axis)
     IN /\ a' = a1
        /\ IF rd.err # "none"
           THEN Raise(rd.err) /\ UNCHANGED << pos_dims, dims >>
           ELSE /\ pos_dims' = rd.pos_dims
                /\ dims' = rd.dims
                /\ IF ZeroSizeWithoutIdentity(call.name, call.initial, a1.shape, rd.pos_dims)
                   THEN Raise("zero_size")
                   ELSE pc' = "dtypes" /\ err' = err
  /\ UNCHANGED << x64, call, result_dtype, computation_dtype, op, init_val,
                  result, backend, promoted >>

\* lines 117-134: the dtypes, the cast, the operator, the identity, the mask
DTypesStep ==
  /\ pc = "dtypes"
  /\ LET rdtype == ResultDType(call.dtype, a.dtype, call.promote_integers, x64)
         cdtype == ComputationDType(call.name, rdtype)
         init == _reduction_init_val(cdtype, Preset(call.name).init_val, x64)
     IN /\ result_dtype' = rdtype
        /\ computation_dtype' = cdtype
        /\ op' = SelectOp(call.name, cdtype)
        /\ init_val' = init
        /\ promoted' = IF PromotionApplies(call.dtype, call.promote_integers)
                       THEN Some(<< a.dtype, _promote_integer_dtype(a.dtype, x64) >>)
                       ELSE None
        /\ IF MaskBroadcasts(a, call.where_)
           THEN /\ a' = MaskedInput(ConvertElementType(a, cdtype), call.where_, init)
                /\ pc' = "reduce"
                /\ err' = err
           ELSE /\ a' = ConvertElementType(a, cdtype)
                /\ Raise("incompatible_shapes")
  /\ UNCHANGED << x64, call, pos_dims, dims, result, backend >>

\* ReduceStep with the collective strategy invoked before the test for it
ReduceStep_CollectiveFirst ==
  /\ pc = "reduce"
  /\ result' = IF HasNamedAxis(pos_dims, dims)
               THEN ParallelReduce(a, init_val, op, dims)
               ELSE LaxReduce(a, init_val, op, dims)
  /\ backend' = Append(backend,
       [fn |-> IF HasNamedAxis(pos_dims, dims) THEN "parallel_reduce" ELSE "reduce",
        init |-> init_val, op |-> op, dims |-> dims,
        out |-> IF HasNamedAxis(pos_dims, dims)
                THEN ParallelReduce(a, init_val, op, dims)
                ELSE LaxReduce(a, init_val, op, dims)])
  /\ IF HasNamedAxis(pos_dims, dims) /\ ~Preset(call.name).parallel_reduce
     THEN Raise("named_not_implemented")
     ELSE pc' = "initial" /\ err' = err
  /\ UNCHANGED << x64, call, a, pos_dims, dims, result_dtype, computation_dtype,
                  op, init_val, promoted >>

\* lines 135-140: the collective strategy for named axes, else the backend reduce
ReduceStep ==
  /\ pc = "reduce"
  /\ IF HasNamedAxis(pos_dims, dims)
     THEN IF ~Preset(call.name).parallel_reduce
          THEN Raise("named_not_implemented") /\ UNCHANGED << result, backend >>
          ELSE /\ result' = ParallelReduce(a, init_val, op, dims)
               /\ backend' = Append(backend,
                    [fn |-> "parallel_reduce", init |-> init_val, op |-> op, dims |-> dims,
                     out |-> ParallelReduce(a, init_val, op, dims)])
               /\ pc' = "initial"
               /\ err' = err
     ELSE /\ result' = LaxReduce(a, init_val, op, dims)
          /\ backend' = Append(backend,
               [fn |-> "reduce", init |-> init_val, op |-> op, dims |-> dims,
                out |-> LaxReduce(a, init_val, op, dims)])
          /\ pc' = "initial"
          /\ err' = err
  /\ UNCHANGED << x64, call, a, pos_dims, dims, result_dtype, computation_dtype,
                  op, init_val, promoted >>

\* lines 141-146: the user's initial value is combined after the reduce
InitialStep ==
  /\ pc = "initial"
  /\ IF ~IsNone(call.initial) /\ ~InitialIsScalar(call.initial)
     THEN Raise("initial_not_scalar") /\ UNCHANGED result
     ELSE /\ result' = CombineInitial(op, call.initial, result)
          /\ pc' = "finish"
          /\ err' = err
  /\ UNCHANGED << x64, call, a, pos_dims, dims, result_dtype, computation_dtype,
                  op, init_val, backend, promoted >>

\* lines 147-149: keepdims and the cast to the output dtype
FinishStep ==
  /\ pc = "finish"
  /\ result' = Finish(result, call.keepdims, pos_dims, call.dtype, result_dtype, x64)
  /\ pc' = "done"
  /\ UNCHANGED << x64, call, a, pos_dims, dims, result_dtype, computation_dtype,
                  op, init_val, err, backend, promoted >>

\* the call has returned or raised: the next call starts from a clean frame
Return ==
  /\ pc \in {"done", "error"}
  /\ pc' = "idle"
  /\ call' = NoCall
  /\ a' = NoArray
  /\ pos_dims' = << >>
  /\ dims' = << >>
  /\ result_dtype' = "bool"
  /\ computation_dtype' = "bool"
  /\ op' = "add"
  /\ init_val' = 0
  /\ result' = NoArray
  /\ err' = "none"
  /\ backend' = << >>
  /\ promoted' = None
  /\ x64' = FALSE

Stages ==
  \/ CheckArgsStep
  \/ ReductionDimsStep
  \/ DTypesStep
  \/ ReduceStep
  \/ InitialStep
  \/ FinishStep
  \/ Return

(***************************************************************************)
(* Cumulative reductions: cumsum, cumprod, nancumsum, nancumprod and the   *)
(* promoting cumsum behind cumulative_sum.                                 *)
(***************************************************************************)
CumulativeNames == {"cumsum", "cumprod", "nancumsum", "nancumprod", "_cumsum_with_promotion"}
CumulativePreset(name) ==
  CASE name = "cumsum" ->
         [reduction |-> "add", fill_nan |-> FALSE, fill_value |-> 0,
          promote_integers |-> FALSE]
    [] name = "cumprod" ->
         [reduction |-> "mul", fill_nan |-> FALSE, fill_value |-> 0,
          promote_integers |-> FALSE]
    [] name = "nancumsum" ->
         [reduction |-> "add", fill_nan |-> TRUE, fill_value |-> 0,
          promote_integers |-> FALSE]
    [] name = "nancumprod" ->
         [reduction |-> "mul", fill_nan |-> TRUE, fill_value |-> 1,
          promote_integers |-> FALSE]
    [] name = "_cumsum_with_promotion" ->
         [reduction |-> "add", fill_nan |-> FALSE, fill_value |-> 0,
          promote_integers |-> TRUE]

\* _where(isnan(a), fill_value, a)
FillNaN(arr, fill_value) ==
  MkArray(arr.shape,
          [i \in Indices(arr.shape) |->
             IF IsInexact(arr.dtype) /\ arr.data[i] = NaN THEN fill_value ELSE arr.data[i]],
          arr.dtype)

\* whether line 1119 promotes the result type
CumulativePromotes(name, dtype, result_type) ==
  (IsNone(dtype) /\ CumulativePreset(name).promote_integers) \/ result_type = "bool"

\* _cumulative_reduction(a, axis, dtype, out): the error raised or the result,
\* and the dtype pair when _promote_integer_dtype was applied
_cumulative_reduction(c, flag) ==
  LET p == CumulativePreset(c.name)
      flat == IF c.axis.kind = "none" \/ Rank(c.a) = 0
              THEN Reshape(c.a, << ProdSeq(c.a.shape) >>) ELSE c.a
      ax == IF c.axis.kind = "none" THEN 0 ELSE c.axis.v[1]
      num_dims == Rank(flat)
      filled == IF p.fill_nan THEN FillNaN(flat, p.fill_value) ELSE flat
      given == IF IsNone(c.dtype) THEN filled.dtype ELSE Get(c.dtype)
      promotes == CumulativePromotes(c.name, c.dtype, given)
      result_type == CanonicalizeDType(IF promotes THEN _promote_integer_dtype(given, flag)
                                       ELSE given, flag)
      res == LaxCumulative(p.reduction, ConvertElementType(filled, result_type),
                           _canonicalize_axis(ax, num_dims))
  IN IF ~IsNone(c.out) THEN [err |-> "out_not_supported", result |-> NoArray, promoted |-> None]
     ELSE IF ~AxisInRange(ax, num_dims)
     THEN [err |-> "axis_out_of_bounds", result |-> NoArray, promoted |-> None]
     ELSE [err |-> "none",
           result |-> IF c.dtype = Some("bool") THEN ConvertElementType(res, "bool") ELSE res,
           promoted |-> IF promotes
                        THEN Some(<< given, _promote_integer_dtype(given, flag) >>)
                        ELSE None]

CumulativeEnter(c, flag) ==
  /\ pc = "idle"
  /\ x64' = flag
  /\ call' = c
  /\ a' = c.a
  /\ pc' = "cumulative"
  /\ UNCHANGED << pos_dims, dims, result_dtype, computation_dtype, op, init_val,
                  result, err, backend, promoted >>

\* lines 1098-1129
CumulativeStep ==
  /\ pc = "cumulative"
  /\ LET r == _cumulative_reduction(call, x64)
     IN /\ err' = r.err
        /\ pc' = IF r.err # "none" THEN "error" ELSE "done"
        /\ result' = r.result
        /\ promoted' = r.promoted
  /\ UNCHANGED << x64, call, a, pos_dims, dims, result_dtype, computation_dtype, op,
                  init_val, backend >>

\* concatenate([full(zeros_shape, 0, dtype=out.dtype), out], dimension=axis)
PrependZeros(out, axis) ==
  MkArray([out.shape EXCEPT ![axis + 1] = @ + 1],
          [i \in Indices([out.shape EXCEPT ![axis + 1] = @ + 1]) |->
             IF i[axis + 1] = 0 THEN 0 ELSE out.data[[i EXCEPT ![axis + 1] = @ - 1]]],
          out.dtype)

\* lines 1166-1173: the zero slice is prepended when include_initial is set
CumulativeSumResult(r, include_initial, axis) ==
  IF r.err # "none" \/ ~include_initial THEN r
  ELSE [r EXCEPT !.result = PrependZeros(r.result, axis)]

\* _cumsum_with_promotion(x, axis=axis, dtype=dtype)
_cumsum_with_promotion_Narrow(x, axis, dtype, flag) ==
  _cumulative_reduction([name |-> "cumsum", a |-> x, axis |-> AxisInt(axis),
                         dtype |-> dtype, out |-> None], flag)
_cumsum_with_promotion(x, axis, dtype, flag) ==
  _cumulative_reduction([name |-> "_cumsum_with_promotion", a |-> x, axis |-> AxisInt(axis),
                         dtype |-> dtype, out |-> None], flag)

\* cumulative_sum(x, axis, dtype, include_initial)
cumulative_sum(c, flag) ==
  IF Rank(c.a) = 0
  THEN [err |-> "scalar_input", result |-> NoArray, promoted |-> None]
  ELSE IF c.axis.kind = "none" /\ Rank(c.a) > 1
  THEN [err |-> "axis_required", result |-> NoArray, promoted |-> None]
  ELSE IF c.axis.kind # "none" /\ ~AxisInRange(c.axis.v[1], Rank(c.a))
  THEN [err |-> "axis_out_of_bounds", result |-> NoArray, promoted |-> None]
  ELSE CumulativeSumResult(
         _cumsum_with_promotion(
           c.a, IF c.axis.kind = "none" THEN 0 ELSE _canonicalize_axis(c.axis.v[1], Rank(c.a)),
           c.dtype, flag),
         c.include_initial,
         IF c.axis.kind = "none" THEN 0 ELSE _canonicalize_axis(c.axis.v[1], Rank(c.a)))

CumulativeEnd(r) ==
  /\ err' = r.err
  /\ pc' = IF r.err # "none" THEN "error" ELSE "done"
  /\ result' = r.result
  /\ promoted' = r.promoted

\* lines 1144-1173
CumulativeSumStep ==
  /\ pc = "cumulative_sum"
  /\ CumulativeEnd(cumulative_sum(call, x64))
  /\ UNCHANGED << x64, call, a, pos_dims, dims, result_dtype, computation_dtype, op,
                  init_val, backend >>

(***************************************************************************)
(* The quantile family: the validation of the arguments and the move of    *)
(* the targeted axes into one trailing axis.                               *)
(***************************************************************************)
QuantileNames ==
  {"quantile", "nanquantile", "percentile", "nanpercentile", "median", "nanmedian"}
\* the methods with one more accepted
Methods_Cubic == {"linear", "lower", "higher", "midpoint", "nearest", "cubic"}

Methods == {"linear", "lower", "higher", "midpoint", "nearest"}
\* median and nanmedian passing 'lower'
QuantileMethod_Lower(c) == IF c.name \in {"median", "nanmedian"} THEN "lower" ELSE c.method

\* median and nanmedian pass method='midpoint' and the scalar q = 0.5
QuantileMethod(c) == IF c.name \in {"median", "nanmedian"} THEN "midpoint" ELSE c.method
QuantileQShape(c) == IF c.name \in {"median", "nanmedian"} THEN << >> ELSE c.q_shape
\* promote_dtypes_inexact: integers and bool become the default float
PromoteInexact(d, flag) == IF IsInexact(d) THEN d ELSE CanonicalizeDType("float64", flag)

\* sorted(S)
RECURSIVE Sorted(_)
Sorted(S) ==
  IF S = {} THEN << >>
  ELSE LET m == CHOOSE x \in S : \A y \in S : x <= y
       IN << m >> \o Sorted(S \ {m})
\* the swap loop that leaves the list as it is
RECURSIVE SwapLoop_NoSwap(_, _, _)
SwapLoop_NoSwap(dimensions, keep, i) ==
  IF i > Len(keep) THEN dimensions ELSE SwapLoop_NoSwap(dimensions, keep, i + 1)
\* for i, s in enumerate(sorted(keep)): swap dimensions[i] and dimensions[s]
RECURSIVE SwapLoop(_, _, _)
SwapLoop(dimensions, keep, i) ==
  IF i > Len(keep) THEN dimensions
  ELSE SwapLoop([dimensions EXCEPT ![i] = dimensions[keep[i] + 1],
                                   ![keep[i] + 1] = dimensions[i]], keep, i + 1)

\* lines 1184-1187 and 1213-1248: the error raised, or the array with the
\* targeted axes moved into one trailing axis, that axis, and keepdim
QuantilePrepare(c, flag) ==
  LET nd == Rank(c.a)
      arr == ConvertElementType(c.a, PromoteInexact(c.a.dtype, flag))
      canon == [k \in 1 .. Len(c.axis.v) |-> _canonicalize_axis(c.axis.v[k], nd)]
      touched == SeqToSet(canon)
      keep == (0 .. (nd - 1)) \ touched
      dimensions == SwapLoop([k \in 1 .. nd |-> k - 1], Sorted(keep), 1)
      do_not_touch_shape == DropAt(arr.shape, touched, 0)
      touch_shape == DropAt(arr.shape, keep, 0)
      Fail(e) == [err |-> e, a |-> NoArray, axis |-> 0, keepdim |-> << >>]
  IN IF c.overwrite THEN Fail("overwrite_or_out")
     ELSE IF QuantileMethod(c) \notin Methods THEN Fail("bad_method")
     ELSE IF arr.dtype \in ComplexDTypes THEN Fail("complex_input")
     ELSE IF c.axis.kind # "none" /\ \E k \in 1 .. Len(c.axis.v) : ~AxisInRange(c.axis.v[k], nd)
     THEN Fail("axis_out_of_bounds")
     ELSE IF c.axis.kind = "seq" /\ Cardinality(touched) # Len(canon)
     THEN Fail("repeated_axis")
     ELSE IF Len(QuantileQShape(c)) > 1 THEN Fail("q_rank")
     ELSE IF c.axis.kind = "none"
     THEN [err |-> "none", a |-> Reshape(arr, << ProdSeq(arr.shape) >>), axis |-> 0,
           keepdim |-> IF c.keepdims THEN [k \in 1 .. nd |-> 1] ELSE << >>]
     ELSE IF c.axis.kind = "seq"
     THEN [err |-> "none",
           a |-> Reshape(Transpose(arr, dimensions),
                         do_not_touch_shape \o << ProdSeq(touch_shape) >>),
           axis |-> Len(do_not_touch_shape),
           keepdim |-> [k \in 1 .. nd |-> IF (k - 1) \in touched THEN 1 ELSE arr.shape[k]]]
     ELSE [err |-> "none", a |-> arr, axis |-> canon[1], keepdim |-> << >>]

QuantileEnter(c, flag) ==
  /\ pc = "idle"
  /\ x64' = flag
  /\ call' = c
  /\ a' = c.a
  /\ pc' = "quantile"
  /\ UNCHANGED << pos_dims, dims, result_dtype, computation_dtype, op, init_val,
                  result, err, backend, promoted >>

QuantileValidate ==
  /\ pc = "quantile"
  /\ LET r == QuantilePrepare(call, x64)
     IN /\ err' = r.err
        /\ pc' = IF r.err # "none" THEN "error" ELSE "validated"
        /\ a' = IF r.err # "none" THEN a ELSE r.a
        /\ dims' = IF r.err # "none" THEN dims ELSE << r.axis >>
  /\ UNCHANGED << x64, call, pos_dims, result_dtype, computation_dtype, op, init_val,
                  result, backend, promoted >>

(***************************************************************************)
(* The statistics built on sum: mean, average, var and std.  A call is     *)
(* [name, a, axis, dtype, out, keepdims, where_, initial, ddof,            *)
(*  ddof_is_int, correction, weights, returned]; every function is given   *)
(* as the error it raises or the array it returns.                         *)
(***************************************************************************)
\* lax.neg, lax.sub, lax.div, lax.square and lax.sqrt on floats
FNeg(x) ==
  IF x = NaN THEN NaN
  ELSE IF IsInfV(x) THEN (IF x = PosInf THEN NegInf ELSE PosInf)
  ELSE MkQ(-Num(x), Den(x))
FSub(x, y, d) == FAdd(x, FNeg(y), d)
FDiv(x, y, d) ==
  IF x = NaN \/ y = NaN THEN NaN
  ELSE IF IsInfV(x) /\ IsInfV(y) THEN NaN
  ELSE IF IsInfV(x) THEN (IF FLessEq(0, y) THEN x ELSE FNeg(x))
  ELSE IF IsInfV(y) THEN 0
  ELSE IF y = 0 THEN (IF x = 0 THEN NaN ELSE IF FLessEq(0, x) THEN PosInf ELSE NegInf)
  ELSE MkQ(Num(x) * Den(y), Den(x) * Num(y))
FSquare(x, d) == FMul(x, x, d)
\* the integer root of n, or -1 when n is no square
IntRoot(n) ==
  IF \E r \in 0 .. 181 : r * r = n THEN CHOOSE r \in 0 .. 181 : r * r = n ELSE -1
FSqrt(x) ==
  IF x = NaN \/ x = NegInf THEN NaN
  ELSE IF x = PosInf THEN PosInf
  ELSE IF ~FLessEq(0, x) THEN NaN
  ELSE IF IntRoot(Num(x)) >= 0 /\ IntRoot(Den(x)) >= 0
       THEN MkQ(IntRoot(Num(x)), IntRoot(Den(x)))
  ELSE SqrtBase + Num(x) * DenLim + Den(x)

\* an elementwise unary / binary operation; the operands of the binary one
\* broadcast against each other
Map1(F(_), x, dtype) ==
  MkArray(x.shape, [i \in Indices(x.shape) |-> F(x.data[i])], dtype)
Map2(F(_, _, _), x, y, dtype) ==
  LET shape == BroadcastShapes(x.shape, y.shape)
      bx == BroadcastTo(x, shape)
      by == BroadcastTo(y, shape)
  IN MkArray(shape, [i \in Indices(shape) |-> F(bx.data[i], by.data[i], dtype)], dtype)
\* lax_internal._isnan(a)
IsNanArr(x) ==
  MkArray(x.shape,
          [i \in Indices(x.shape) |-> IF IsInexact(x.dtype) /\ x.data[i] = NaN THEN 1 ELSE 0],
          "bool")
\* lax_internal.bitwise_not of a boolean array
NotArr(x) == MkArray(x.shape, [i \in Indices(x.shape) |-> 1 - x.data[i]], "bool")
\* _where(cond, x, y) on arrays that broadcast against each other
Select(cond, x, y, dtype) ==
  LET shape == BroadcastShapes(cond.shape, BroadcastShapes(x.shape, y.shape))
      bc == BroadcastTo(cond, shape)
      bx == BroadcastTo(x, shape)
      by == BroadcastTo(y, shape)
  IN MkArray(shape,
             [i \in Indices(shape) |-> IF bc.data[i] # 0 THEN bx.data[i] ELSE by.data[i]],
             dtype)
\* _broadcast_to(x, shape) is defined when x broadcasts to exactly shape
BroadcastsTo(x, shape) == BroadcastShapes(x.shape, shape) = shape

Failed(e) == [err |-> e, result |-> NoArray]
Returned(arr) == [err |-> "none", result |-> arr]

\* the public sum as the statistics call it: out is not passed, integers are
\* promoted
sum(arr, axis, dtype, keepdims, initial, where_, flag) ==
  Reduction([name |-> "sum", a |-> arr, axis |-> axis, dtype |-> dtype, out |-> None,
             keepdims |-> keepdims, initial |-> initial, where_ |-> where_,
             promote_integers |-> TRUE], flag)

\* _axis_size(a, axis): the product of the sizes of the axes; a_shape[i] takes
\* a negative index and fails out of range; a named axis has one participant
_axis_size(arr, axis) ==
  IF \E k \in 1 .. Len(axis.v) : ~IsNamed(axis.v[k]) /\ ~AxisInRange(axis.v[k], Rank(arr))
  THEN Failed("index_out_of_range")
  ELSE Returned(Scalar(
         ProdSeq([k \in 1 .. Len(axis.v) |->
                    IF IsNamed(axis.v[k]) THEN 1
                    ELSE arr.shape[_canonicalize_axis(axis.v[k], Rank(arr)) + 1]]),
         "int32"))

MeanNormalizer_IgnoringMask(arr, axis, dtype, keepdims, where_, flag) ==
  IF axis.kind = "none" THEN Returned(Scalar(ProdSeq(arr.shape), "int32"))
  ELSE _axis_size(arr, axis)
\* lines 761-767: the number of elements a mean is taken over
MeanNormalizer(arr, axis, dtype, keepdims, where_, flag) ==
  IF IsNone(where_)
  THEN (IF axis.kind = "none" THEN Returned(Scalar(ProdSeq(arr.shape), "int32"))
        ELSE _axis_size(arr, axis))
  ELSE IF ~BroadcastsTo(Get(where_), arr.shape) THEN Failed("incompatible_shapes")
  ELSE sum(BroadcastTo(Get(where_), arr.shape), axis, dtype, keepdims, None, None, flag)

\* lines 750-754: the result dtype of a mean
MeanDType(a_dtype, dtype, flag) ==
  IF IsNone(dtype) THEN PromoteInexact(CanonicalizeDType(a_dtype, flag), flag)
  ELSE CanonicalizeDType(Get(dtype), flag)
\* lines 747-748 and 769-772: the sum divided by the normalizer, in the result
\* dtype
MeanResult(out, normalizer, total, cdtype, rdtype) ==
  IF ~IsNone(out) THEN Failed("out_not_supported")
  ELSE IF normalizer.err # "none" THEN normalizer
  ELSE IF total.err # "none" THEN total
  ELSE Returned(ConvertElementType(
         Map2(FDiv, total.result, ConvertElementType(normalizer.result, cdtype), cdtype),
         rdtype))
\* _mean(a, axis, dtype, out, keepdims, where=where)
_mean(arr, axis, dtype, out, keepdims, where_, flag) ==
  LET rdtype == MeanDType(arr.dtype, dtype, flag)
      cdtype == IF IsInexact(rdtype) THEN _upcast_f16(rdtype) ELSE rdtype
  IN MeanResult(out, MeanNormalizer(arr, axis, dtype, keepdims, where_, flag),
                sum(arr, axis, Some(cdtype), keepdims, None, where_, flag), cdtype, rdtype)
mean(arr, axis, dtype, out, keepdims, where_, flag) ==
  _mean(arr, axis, dtype, out, keepdims, where_, flag)

\* _complex_elem_type: the dtype of the real part
_complex_elem_type(d) ==
  CASE d = "complex64" -> "float32" [] d = "complex128" -> "float64" [] OTHER -> d

\* _var_promote_types(a_dtype, dtype): the computation dtype and the result
\* dtype, or the error raised
_var_promote_types(a_dtype, dtype, flag) ==
  IF ~IsNone(dtype)
  THEN (IF Get(dtype) \notin ComplexDTypes /\ a_dtype \in ComplexDTypes
        THEN [err |-> "real_dtype_for_complex", computation_dtype |-> "bool", dtype |-> "bool"]
        ELSE [err |-> "none", computation_dtype |-> _upcast_f16(Get(dtype)),
              dtype |-> Get(dtype)])
  ELSE IF ~IsInexact(a_dtype)
  THEN [err |-> "none", computation_dtype |-> _upcast_f16(PromoteInexact(a_dtype, flag)),
        dtype |-> PromoteInexact(a_dtype, flag)]
  ELSE [err |-> "none", computation_dtype |-> _upcast_f16(a_dtype),
        dtype |-> _complex_elem_type(a_dtype)]

\* lines 873-881: the number of elements a variance is taken over
VarNormalizer(arr, axis, cdtype, keepdims, where_, flag) ==
  IF IsNone(where_)
  THEN (IF axis.kind = "none"
        THEN Returned(Scalar(ProdSeq(arr.shape), cdtype))
        ELSE IF _axis_size(arr, axis).err # "none" THEN _axis_size(arr, axis)
        ELSE Returned(ConvertElementType(_axis_size(arr, axis).result, cdtype)))
  ELSE IF ~BroadcastsTo(Get(where_), arr.shape) THEN Failed("incompatible_shapes")
  ELSE sum(BroadcastTo(Get(where_), arr.shape), axis, Some(cdtype), keepdims, None, None,
           flag)

PositiveDoF_NonNegative(x) == x # NaN /\ FLessEq(0, x)
\* normalizer > 0
PositiveDoF(x) == x # NaN /\ ~FLessEq(x, 0)

\* the dtype of _where(cond, x, np.nan): the weak float leaves an inexact dtype
\* alone
WithNaNDType(d, flag) == IF IsInexact(d) THEN d ELSE PromoteInexact(d, flag)

\* lines 866-871: the squared distances to the mean
Centered(arr, a_mean) ==
  Map1(LAMBDA v : FSquare(v, _complex_elem_type(arr.dtype)),
       Map2(FSub, arr, a_mean, arr.dtype), _complex_elem_type(arr.dtype))
\* lines 860-861 and 882-884: the sum divided by the normalizer where that is
\* positive, NaN elsewhere
VarResult(out, pt, a_mean, size, total, correction, cdtype, flag) ==
  LET normalizer == Map2(FSub, size.result,
                         Scalar(ConvertValue(correction, cdtype), cdtype), cdtype)
      rdtype == CanonicalizeDType(pt.dtype, flag)
  IN IF ~IsNone(out) THEN Failed("out_not_supported")
     ELSE IF pt.err # "none" THEN Failed(pt.err)
     ELSE IF a_mean.err # "none" THEN a_mean
     ELSE IF size.err # "none" THEN size
     ELSE IF total.err # "none" THEN total
     ELSE Returned(Select(Map1(LAMBDA v : IF PositiveDoF(v) THEN 1 ELSE 0, normalizer, "bool"),
                          ConvertElementType(Map2(FDiv, total.result, normalizer, cdtype),
                                             rdtype),
                          Scalar(NaN, WithNaNDType(rdtype, flag)),
                          WithNaNDType(rdtype, flag)))
\* lines 866-883: the sum of the squared distances to the mean a_mean
VarOfMean(out, pt, a1, a_mean, axis, correction, keepdims, where_, flag) ==
  VarResult(out, pt, a_mean,
            VarNormalizer(a1, axis, _complex_elem_type(a1.dtype), keepdims, where_, flag),
            sum(Centered(a1, a_mean.result), axis, Some(_complex_elem_type(a1.dtype)),
                keepdims, None, where_, flag),
            correction, _complex_elem_type(a1.dtype), flag)
\* line 864: the input of a variance in the computation dtype
VarInput(arr, pt, flag) ==
  ConvertElementType(arr, CanonicalizeDType(pt.computation_dtype, flag))
\* line 865: the mean of the input in the computation dtype
VarOfInput(out, pt, a1, axis, correction, keepdims, where_, flag) ==
  VarOfMean(out, pt, a1, mean(a1, axis, Some(a1.dtype), None, TRUE, where_, flag), axis,
            correction, keepdims, where_, flag)
\* _var(a, axis, dtype, out, correction, keepdims, where=where); a complex
\* value is modelled by its real part, its imaginary part being zero
_var(arr, axis, dtype, out, correction, keepdims, where_, flag) ==
  VarOfInput(out, _var_promote_types(arr.dtype, dtype, flag),
             VarInput(arr, _var_promote_types(arr.dtype, dtype, flag), flag),
             axis, correction, keepdims, where_, flag)

Correction_DdofFirst(ddof, ddof_is_int, correction) ==
  IF ~ddof_is_int \/ ddof # 0 \/ IsNone(correction) THEN [err |-> "none", v |-> ddof]
  ELSE [err |-> "none", v |-> Get(correction)]
\* lines 847-850 and 912-915: the correction var and std pass on, or the error
Correction(ddof, ddof_is_int, correction) ==
  IF IsNone(correction) THEN [err |-> "none", v |-> ddof]
  ELSE IF ~ddof_is_int \/ ddof # 0 THEN [err |-> "ddof_and_correction", v |-> 0]
  ELSE [err |-> "none", v |-> Get(correction)]

var(arr, axis, dtype, out, ddof, ddof_is_int, keepdims, where_, correction, flag) ==
  LET corr == Correction(ddof, ddof_is_int, correction)
  IN IF corr.err # "none" THEN Failed(corr.err)
     ELSE _var(arr, axis, dtype, out, corr.v, keepdims, where_, flag)

StdDTypeAccepted_FloatingOnly(dtype) == IsNone(dtype) \/ Get(dtype) \in FloatDTypes
\* the negation of the guard of line 925
StdDTypeAccepted(dtype) == IsNone(dtype) \/ IsInexact(Get(dtype))

\* lines 925-929: the square root of the variance v
StdResult(dtype, out, v) ==
  IF ~StdDTypeAccepted(dtype) THEN Failed("dtype_not_inexact")
  ELSE IF ~IsNone(out) THEN Failed("out_not_supported")
  ELSE IF v.err # "none" THEN v
  ELSE Returned(Map1(FSqrt, v.result, v.result.dtype))
\* _std(a, axis, dtype, out, correction, keepdims, where=where)
_std(arr, axis, dtype, out, correction, keepdims, where_, flag) ==
  StdResult(dtype, out,
            var(arr, axis, dtype, None, 0, TRUE, keepdims, where_, Some(correction), flag))

std(arr, axis, dtype, out, ddof, ddof_is_int, keepdims, where_, correction, flag) ==
  LET corr == Correction(ddof, ddof_is_int, correction)
  IN IF corr.err # "none" THEN Failed(corr.err)
     ELSE _std(arr, axis, dtype, out, corr.v, keepdims, where_, flag)
\* promote_dtypes_inexact(a, weights): the common dtype of the two, made
\* inexact
JoinInexact(d1, d2, flag) ==
  IF ~IsInexact(d1) /\ ~IsInexact(d2) THEN PromoteInexact(d1, flag)
  ELSE IF ~IsInexact(d1) THEN d2
  ELSE IF ~IsInexact(d2) THEN d1
  ELSE IF d1 = d2 THEN d1
  ELSE IF d1 \in ComplexDTypes \/ d2 \in ComplexDTypes
  THEN (IF Bits(_complex_elem_type(d1)) > 32 \/ Bits(_complex_elem_type(d2)) > 32
        THEN CanonicalizeDType("complex128", flag) ELSE "complex64")
  ELSE IF Bits(d1) > Bits(d2) THEN d1
  ELSE IF Bits(d2) > Bits(d1) THEN d2
  ELSE "float32"

\* perm.insert(destination, source)
InsertAt(s, k, x) == SubSeq(s, 1, k) \o << x >> \o SubSeq(s, k + 1, Len(s))
_moveaxis_Stay(arr, source, destination) == arr
\* _moveaxis(a, source, destination)
_moveaxis(arr, source, destination) ==
  LET src == _canonicalize_axis(source, Rank(arr))
      dst == _canonicalize_axis(destination, Rank(arr))
      perm == SelectSeq([k \in 1 .. Rank(arr) |-> k - 1], LAMBDA i : i # src)
  IN Transpose(arr, InsertAt(perm, dst, src))

\* the result of average: avg, or the pair (avg, weights_sum) when returned
AverageResult(avg, weights_sum, returned) ==
  IF ~returned THEN Returned(avg)
  ELSE Returned([shape |-> avg.shape, data |-> avg.data, dtype |-> avg.dtype,
                 weights_sum |-> IF avg.shape # weights_sum.shape
                                 THEN BroadcastTo(weights_sum, avg.shape)
                                 ELSE weights_sum])

\* lines 795-800: the mean avg and the number n of elements it is taken over
AverageOfMean(avg, n, axis, returned) ==
  IF avg.err # "none" THEN avg
  ELSE AverageResult(avg.result,
                     IF axis.kind = "none" THEN Scalar(n, avg.result.dtype)
                     ELSE MkArray(avg.result.shape,
                                  [i \in Indices(avg.result.shape) |-> n],
                                  avg.result.dtype),
                     returned)
\* lines 791-800: the average without weights
UnweightedAverage(arr, axis, returned, keepdims, flag) ==
  AverageOfMean(mean(ConvertElementType(arr, PromoteInexact(arr.dtype, flag)), axis, None,
                     None, keepdims, None, flag),
                IF axis.kind = "none" THEN ProdSeq(arr.shape)
                ELSE ProdSeq([k \in 1 .. Len(axis.v) |->
                                arr.shape[_canonicalize_axis(axis.v[k], Rank(arr)) + 1]]),
                axis, returned)

\* lines 816-828: the error raised for weights whose shape is not a's
WeightsError(a_shape, weights_shape, axis) ==
  IF a_shape = weights_shape THEN "none"
  ELSE IF Len(weights_shape) # 1 THEN "weights_not_1d"
  ELSE IF axis.kind = "none" THEN "axis_required"
  ELSE IF axis.kind = "seq" THEN "single_axis_expected"
  ELSE IF weights_shape[1] # a_shape[axis.v[1] + 1] THEN "weights_length"
  ELSE "none"

\* lines 809-834: the weighted sum divided by the sum of the weights, or the
\* error raised
WeightedResult(axis_ok, werr, weights_sum, total, returned) ==
  IF ~axis_ok THEN Failed("axis_out_of_bounds")
  ELSE IF werr # "none" THEN Failed(werr)
  ELSE IF weights_sum.err # "none" THEN weights_sum
  ELSE IF total.err # "none" THEN total
  ELSE AverageResult(Map2(FDiv, total.result, weights_sum.result, total.result.dtype),
                     weights_sum.result, returned)
\* lines 801-834: the average with weights
WeightedAverage(arr, axis, weights, returned, keepdims, flag) ==
  LET dtype == JoinInexact(arr.dtype, weights.dtype, flag)
      a1 == ConvertElementType(arr, dtype)
      w1 == ConvertElementType(weights, dtype)
      a_ndim == Rank(arr)
      canon == [axis EXCEPT !.v = [k \in 1 .. Len(axis.v) |->
                                     _canonicalize_axis(axis.v[k], a_ndim)]]
      w2 == IF arr.shape = weights.shape THEN w1
            ELSE _moveaxis(BroadcastTo(w1, [k \in 1 .. (a_ndim - 1) |-> 1] \o w1.shape),
                           -1, canon.v[1])
  IN WeightedResult(\A k \in 1 .. Len(axis.v) : AxisInRange(axis.v[k], a_ndim),
                    WeightsError(arr.shape, weights.shape, canon),
                    sum(w2, canon, None, keepdims, None, None, flag),
                    sum(Map2(FMul, a1, w2, dtype), canon, None, keepdims, None, None, flag),
                    returned)

\* _average(a, axis, weights, returned, keepdims)
_average(arr, axis, weights, returned, keepdims, flag) ==
  IF IsNone(weights) THEN UnweightedAverage(arr, axis, returned, keepdims, flag)
  ELSE WeightedAverage(arr, axis, Get(weights), returned, keepdims, flag)
average(arr, axis, weights, returned, keepdims, flag) ==
  _average(arr, axis, weights, returned, keepdims, flag)
(***************************************************************************)
(* The NaN-aware reductions.                                               *)
(***************************************************************************)
\* the public sum, prod, max, min, all as _nan_reduction calls them
Reduce(name, arr, axis, dtype, out, keepdims, initial, where_, flag) ==
  Reduction([name |-> name, a |-> arr, axis |-> axis, dtype |-> dtype, out |-> out,
             keepdims |-> keepdims, initial |-> initial, where_ |-> where_,
             promote_integers |-> name \in {"sum", "prod"}], flag)

NanFill_Zero(arr, fill, flag) == FillNaN(arr, 0)
\* _where(isnan(a), _reduction_init_val(a, init_val), a)
NanFill(arr, fill, flag) ==
  FillNaN(arr, _reduction_init_val(arr.dtype, fill, flag))

\* lines 966-970: NaN where the whole slice is NaN, when asked for
NanResult(arr, nan_if_all_nan, filled, all_nan) ==
  IF filled.err # "none" THEN filled
  ELSE IF ~nan_if_all_nan THEN filled
  ELSE IF all_nan.err # "none" THEN all_nan
  ELSE Returned(Select(all_nan.result, Scalar(NaN, arr.dtype), filled.result,
                       filled.result.dtype))
\* _nan_reduction(a, name, jnp_reduction, init_val, nan_if_all_nan, axis,
\* keepdims, **kwargs)
_nan_reduction(arr, jnp_reduction, fill, nan_if_all_nan, axis, keepdims, kwargs, flag) ==
  IF ~IsInexact(arr.dtype)
  THEN Reduce(jnp_reduction, arr, axis, kwargs.dtype, kwargs.out, keepdims, kwargs.initial,
              kwargs.where_, flag)
  ELSE NanResult(arr, nan_if_all_nan,
                 Reduce(jnp_reduction, NanFill(arr, fill, flag), axis, kwargs.dtype,
                        kwargs.out, keepdims, kwargs.initial, kwargs.where_, flag),
                 Reduce("all", IsNanArr(arr), axis, None, None, keepdims, None, None, flag))

NanIfAllNan_Never(initial) == FALSE
\* nan_if_all_nan=initial is None
NanIfAllNan(initial) == IsNone(initial)

nanmin(arr, axis, out, keepdims, initial, where_, flag) ==
  _nan_reduction(arr, "min", PosInf, NanIfAllNan(initial), axis, keepdims,
                 [dtype |-> None, out |-> out, initial |-> initial, where_ |-> where_],
                 flag)
nanmax(arr, axis, out, keepdims, initial, where_, flag) ==
  _nan_reduction(arr, "max", NegInf, NanIfAllNan(initial), axis, keepdims,
                 [dtype |-> None, out |-> out, initial |-> initial, where_ |-> where_],
                 flag)
nansum(arr, axis, dtype, out, keepdims, initial, where_, flag) ==
  _nan_reduction(arr, "sum", 0, FALSE, axis, keepdims,
                 [dtype |-> dtype, out |-> out, initial |-> initial, where_ |-> where_],
                 flag)
nanprod(arr, axis, dtype, out, keepdims, initial, where_, flag) ==
  _nan_reduction(arr, "prod", 1, FALSE, axis, keepdims,
                 [dtype |-> dtype, out |-> out, initial |-> initial, where_ |-> where_],
                 flag)

NonNanCount_AllElements(arr, axis, dtype, keepdims, where_, flag) ==
  sum(Map1(LAMBDA v : 1, arr, "bool"), axis, dtype, keepdims, None, where_, flag)
\* lines 1028-1029: the number of elements that are not NaN, and included
NonNanCount(arr, axis, dtype, keepdims, where_, flag) ==
  sum(NotArr(IsNanArr(arr)), axis, dtype, keepdims, None, where_, flag)

\* lines 1030-1031: the sum of the elements that are not NaN divided by their
\* number
NanMeanResult(normalizer, total, dt) ==
  IF normalizer.err # "none" THEN normalizer
  ELSE IF total.err # "none" THEN total
  ELSE Returned(Map2(FDiv, total.result, normalizer.result, dt))
\* lines 1028-1031: nanmean of an inexact array with the result dtype dt
NanMeanOfInexact(arr, axis, dt, keepdims, where_, flag) ==
  NanMeanResult(NonNanCount(arr, axis, Some(dt), keepdims, where_, flag),
                nansum(arr, axis, Some(dt), None, keepdims, None, where_, flag), dt)
\* nanmean(a, axis, dtype, out, keepdims, where)
nanmean(arr, axis, dtype, out, keepdims, where_, flag) ==
  IF ~IsNone(out) THEN Failed("out_not_supported")
  ELSE IF arr.dtype = "bool" \/ IsInteger(arr.dtype)
  THEN mean(arr, axis, dtype, out, keepdims, where_, flag)
  ELSE NanMeanOfInexact(arr, axis, MeanDType(arr.dtype, dtype, flag), keepdims, where_,
                        flag)

\* lines 1048-1052: the squared distances to the mean, 0 where a is NaN
NanCentered(arr, a_mean) ==
  Map1(LAMBDA v : FSquare(v, _complex_elem_type(arr.dtype)),
       Select(IsNanArr(arr), Scalar(0, arr.dtype), Map2(FSub, arr, a_mean, arr.dtype),
              arr.dtype),
       _complex_elem_type(arr.dtype))
\* lines 1041-1042 and 1056-1062: the sum divided by the number of elements
\* that are not NaN less ddof where that is positive, NaN elsewhere
NanVarResult(out, pt, a_mean, count, total, ddof, cdtype, flag) ==
  LET normalizer == Map1(LAMBDA v : v - ddof, count.result, count.result.dtype)
      normalizer_mask == Map1(LAMBDA v : IF v <= 0 THEN 1 ELSE 0, normalizer, "bool")
      divisor == Select(normalizer_mask, Scalar(1, normalizer.dtype), normalizer,
                        normalizer.dtype)
  IN IF ~IsNone(out) THEN Failed("out_not_supported")
     ELSE IF pt.err # "none" THEN Failed(pt.err)
     ELSE IF a_mean.err # "none" THEN a_mean
     ELSE IF count.err # "none" THEN count
     ELSE IF total.err # "none" THEN total
     ELSE Returned(ConvertElementType(
            Map2(FDiv, Select(normalizer_mask, Scalar(NaN, cdtype), total.result, cdtype),
                 ConvertElementType(divisor, cdtype), cdtype),
            CanonicalizeDType(pt.dtype, flag)))
\* lines 1048-1058: the count of the elements that are not NaN and the sum of
\* the squared distances to the mean a_mean
NanVarOfMean(out, pt, a1, a_mean, axis, ddof, keepdims, where_, flag) ==
  NanVarResult(out, pt, a_mean,
               sum(NotArr(IsNanArr(a1)), axis, None, keepdims, None, where_, flag),
               sum(NanCentered(a1, a_mean.result), axis, None, keepdims, None, where_, flag),
               ddof, _complex_elem_type(a1.dtype), flag)
\* line 1046: the mean of the input in the computation dtype
NanVarOfInput(out, pt, a1, axis, ddof, keepdims, where_, flag) ==
  NanVarOfMean(out, pt, a1, nanmean(a1, axis, Some(a1.dtype), None, TRUE, where_, flag),
               axis, ddof, keepdims, where_, flag)
\* nanvar(a, axis, dtype, out, ddof, keepdims, where)
nanvar(arr, axis, dtype, out, ddof, keepdims, where_, flag) ==
  NanVarOfInput(out, _var_promote_types(arr.dtype, dtype, flag),
                VarInput(arr, _var_promote_types(arr.dtype, dtype, flag), flag),
                axis, ddof, keepdims, where_, flag)

\* lines 1072-1074: the square root of the variance v
NanStdResult(out, v) ==
  IF ~IsNone(out) THEN Failed("out_not_supported")
  ELSE IF v.err # "none" THEN v
  ELSE Returned(Map1(FSqrt, v.result, v.result.dtype))
\* nanstd(a, axis, dtype, out, ddof, keepdims, where)
nanstd(arr, axis, dtype, out, ddof, keepdims, where_, flag) ==
  NanStdResult(out, nanvar(arr, axis, dtype, None, ddof, keepdims, where_, flag))

(***************************************************************************)
(* One call of a statistic or of a NaN-aware reduction.                    *)
(***************************************************************************)

StatsNames ==
  {"mean", "average", "var", "std", "nanmin", "nanmax", "nansum", "nanprod", "nanmean",
   "nanvar", "nanstd"}
\* the function of a call applied to its arguments
Stats(c, flag) ==
  CASE c.name = "mean" -> mean(c.a, c.axis, c.dtype, c.out, c.keepdims, c.where_, flag)
    [] c.name = "average" -> average(c.a, c.axis, c.weights, c.returned, c.keepdims, flag)
    [] c.name = "var" -> var(c.a, c.axis, c.dtype, c.out, c.ddof, c.ddof_is_int, c.keepdims,
                             c.where_, c.correction, flag)
    [] c.name = "std" -> std(c.a, c.axis, c.dtype, c.out, c.ddof, c.ddof_is_int, c.keepdims,
                             c.where_, c.correction, flag)
    [] c.name = "nanmin" -> nanmin(c.a, c.axis, c.out, c.keepdims, c.initial, c.where_, flag)
    [] c.name = "nanmax" -> nanmax(c.a, c.axis, c.out, c.keepdims, c.initial, c.where_, flag)
    [] c.name = "nansum" -> nansum(c.a, c.axis, c.dtype, c.out, c.keepdims, c.initial,
                                   c.where_, flag)
    [] c.name = "nanprod" -> nanprod(c.a, c.axis, c.dtype, c.out, c.keepdims, c.initial,
                                     c.where_, flag)
    [] c.name = "nanmean" -> nanmean(c.a, c.axis, c.dtype, c.out, c.keepdims, c.where_, flag)
    [] c.name = "nanvar" -> nanvar(c.a, c.axis, c.dtype, c.out, c.ddof, c.keepdims, c.where_,
                                   flag)
    [] c.name = "nanstd" -> nanstd(c.a, c.axis, c.dtype, c.out, c.ddof, c.keepdims, c.where_,
                                   flag)

StatsEnter(c, flag) ==
  /\ pc = "idle"
  /\ x64' = flag
  /\ call' = c
  /\ a' = c.a
  /\ pc' = "stats"
  /\ UNCHANGED << pos_dims, dims, result_dtype, computation_dtype, op, init_val,
                  result, err, backend, promoted >>

\* the call runs to its return or to the error it raises
\* the call raises r.err or returns r.result
StatsEnd(r) ==
  /\ err' = r.err
  /\ pc' = IF r.err # "none" THEN "error" ELSE "done"
  /\ result' = r.result
StatsStep ==
  /\ pc = "stats"
  /\ StatsEnd(Stats(call, x64))
  /\ UNCHANGED << x64, call, a, pos_dims, dims, result_dtype, computation_dtype, op,
                  init_val, backend, promoted >>


(***************************************************************************)
(* The quantile family: the order statistics and their interpolation.      *)
(* q is an array [shape, data] of rank at most 1; the fractions among its  *)
(* elements are dyadic, so that the products with the counts are exact in  *)
(* binary floating point as they are in the model.                         *)
(***************************************************************************)
\* lax.floor and lax.ceil
Floor(x) == IF IsFrac(x) THEN Num(x) \div Den(x) ELSE x
Ceil(x) == IF IsFrac(x) THEN (Num(x) \div Den(x)) + 1 ELSE x
MinInt(x, y) == IF x <= y THEN x ELSE y

\* lax.sort along an axis: ascending, the NaNs last
SortsBefore(x, y) == y = NaN \/ (x # NaN /\ FLessEq(x, y))
RECURSIVE InsertSorted(_, _)
InsertSorted(s, x) ==
  IF s = << >> THEN << x >>
  ELSE IF SortsBefore(x, Head(s)) THEN << x >> \o s
  ELSE << Head(s) >> \o InsertSorted(Tail(s), x)
RECURSIVE SortAscending(_)
SortAscending(s) == IF s = << >> THEN << >> ELSE InsertSorted(SortAscending(Tail(s)), Head(s))
\* the elements of arr along axis through index i
Along(arr, i, axis) ==
  [k \in 1 .. arr.shape[axis + 1] |-> arr.data[[i EXCEPT ![axis + 1] = k - 1]]]
LaxSort(arr, axis) ==
  MkArray(arr.shape,
          [i \in Indices(arr.shape) |-> SortAscending(Along(arr, i, axis))[i[axis + 1] + 1]],
          arr.dtype)

\* the dtype of q: a Python float is a weakly typed default float
QuantileQDType(flag) == CanonicalizeDType("float64", flag)
\* the q that reaches _quantile: median passes 0.5, percentile divides by 100
QuantileQ(c) ==
  IF c.name \in {"median", "nanmedian"} THEN [shape |-> << >>, data |-> [i \in {<< >>} |-> MkQ(1, 2)]]
  ELSE IF c.name \in {"percentile", "nanpercentile"}
  THEN [shape |-> c.q.shape,
        data |-> [i \in Indices(c.q.shape) |-> FDiv(c.q.data[i], 100, "float32")]]
  ELSE c.q
\* squash_nans: the last argument of _quantile
SquashNans_Never(c) == FALSE
SquashNans(c) == c.name \in {"nanquantile", "nanpercentile", "nanmedian"}

\* line 1281: _where(any(isnan(a), axis=axis, keepdims=True), nan, a)
PoisonNaN_Kept(arr, axis) == arr
PoisonNaN(arr, axis) ==
  MkArray(arr.shape,
          [i \in Indices(arr.shape) |->
             IF \E k \in 1 .. arr.shape[axis + 1] : Along(arr, i, axis)[k] = NaN
             THEN NaN ELSE arr.data[i]],
          arr.dtype)
\* lines 1253-1254 and 1281-1282: the array that is gathered from
QuantileSorted(arr, axis, squash) ==
  IF squash THEN LaxSort(arr, axis) ELSE LaxSort(PoisonNaN(arr, axis), axis)

\* line 1255: the number of elements that are not NaN in the slice through i
\* (squash_nans), line 1283: the length of the axis
QuantileCount_AxisLength(sorted, i, axis, squash) == sorted.shape[axis + 1]
QuantileCount(sorted, i, axis, squash) ==
  IF squash
  THEN Cardinality({ k \in 1 .. sorted.shape[axis + 1] : Along(sorted, i, axis)[k] # NaN })
  ELSE sorted.shape[axis + 1]

\* lines 1263-1264: lax.max(0, lax.min(low, counts - 1)); lines 1290-1291:
\* lax.clamp(0, low, n - 1)
QuantileClamp_Unclamped(x, n, squash) == x
QuantileClamp(x, n, squash) ==
  IF squash THEN MaxInt(0, MinInt(x, n - 1)) ELSE MinInt(MaxInt(x, 0), n - 1)
\* high_weight = q - floor(q), low_weight = 1 - high_weight, both taken
\* before the indices are clamped
HighWeight(x, qd) == FSub(x, Floor(x), qd)
LowWeight(x, qd) == FSub(1, HighWeight(x, qd), qd)

\* lines 1313-1326: the method applied to the two order statistics
Interpolate_NearestHigh(method, low_value, high_value, low_weight, high_weight, ad, qd) ==
  CASE method = "linear" -> FAdd(FMul(low_value, low_weight, qd), FMul(high_value, high_weight, qd), qd)
    [] method = "lower" -> low_value
    [] method = "higher" -> high_value
    [] method = "nearest" -> IF FLessEq(MkQ(1, 2), high_weight) THEN high_value ELSE low_value
    [] method = "midpoint" -> FMul(FAdd(low_value, high_value, ad), MkQ(1, 2), ad)
Interpolate(method, low_value, high_value, low_weight, high_weight, ad, qd) ==
  CASE method = "linear" -> FAdd(FMul(low_value, low_weight, qd), FMul(high_value, high_weight, qd), qd)
    [] method = "lower" -> low_value
    [] method = "higher" -> high_value
    [] method = "nearest" -> IF FLessEq(high_weight, MkQ(1, 2)) THEN low_value ELSE high_value
    [] method = "midpoint" -> FMul(FAdd(low_value, high_value, ad), MkQ(1, 2), ad)

\* the gathered index pair of a scaled q and a count
LowIndex(x, n, squash) == QuantileClamp(Floor(x), n, squash)
HighIndex(x, n, squash) == QuantileClamp(Ceil(x), n, squash)
\* the element of the sorted array at position p of the slice through i
SortedAt(sorted, i, axis, p) == sorted.data[[i EXCEPT ![axis + 1] = p]]
\* one output element: x is q * (n - 1)
QuantileGather(sorted, i, axis, x, n, method, qd, squash) ==
  Interpolate(method, SortedAt(sorted, i, axis, LowIndex(x, n, squash)),
              SortedAt(sorted, i, axis, HighIndex(x, n, squash)),
              LowWeight(x, qd), HighWeight(x, qd), sorted.dtype, qd)
QuantileScaled_ByLength(qv, n, qd) == FMul(qv, n, qd)
\* lines 1257 and 1284: q * (counts - 1), q * (n - 1)
QuantileScaled(qv, n, qd) == FMul(qv, n - 1, qd)
QuantileElement(sorted, i, axis, qv, n, method, qd, squash) ==
  QuantileGather(sorted, i, axis, QuantileScaled(qv, n, qd), n, method, qd, squash)

\* the shape gathered into: q's shape, then the array's with the axis
\* dropped, or of length 1 under keepdims
QuantileOutShape(q_shape, a_shape, axis, keepdims) ==
  q_shape \o (IF keepdims THEN [a_shape EXCEPT ![axis + 1] = 1] ELSE DropAt(a_shape, {axis}, 0))
\* the index into the sorted array's slice that output index j reads
SliceOf(j, q_ndim, axis, keepdims) ==
  IF keepdims THEN SubSeq(j, q_ndim + 1, Len(j))
  ELSE InsertAt(SubSeq(j, q_ndim + 1, Len(j)), axis, 0)
QuantileValues(sorted, q, axis, method, keepdims, qd, squash) ==
  MkArray(QuantileOutShape(q.shape, sorted.shape, axis, keepdims),
          [j \in Indices(QuantileOutShape(q.shape, sorted.shape, axis, keepdims)) |->
             ConvertValue(
               QuantileElement(sorted, SliceOf(j, Len(q.shape), axis, keepdims), axis,
                               q.data[SubSeq(j, 1, Len(q.shape))],
                               QuantileCount(sorted, SliceOf(j, Len(q.shape), axis, keepdims),
                                             axis, squash),
                               method, qd, squash),
               sorted.dtype)],
          sorted.dtype)
\* the count and the two indices gathered at for each output element
IndexPair(x, n, qd, squash) ==
  [n |-> n, low |-> LowIndex(x, n, squash), high |-> HighIndex(x, n, squash),
   low_weight |-> LowWeight(x, qd), high_weight |-> HighWeight(x, qd)]
QuantileIndexAt(qv, n, qd, squash) == IndexPair(QuantileScaled(qv, n, qd), n, qd, squash)
QuantileIndices(sorted, q, axis, keepdims, qd, squash) ==
  [j \in Indices(QuantileOutShape(q.shape, sorted.shape, axis, keepdims)) |->
     QuantileIndexAt(q.data[SubSeq(j, 1, Len(q.shape))],
                     QuantileCount(sorted, SliceOf(j, Len(q.shape), axis, keepdims), axis, squash),
                     qd, squash)]
\* lines 1327-1330: result.reshape(keepdim), q's length first
QuantileKeepdim(values, q_shape, keepdims, keepdim) ==
  IF keepdims /\ keepdim # << >> THEN Reshape(values, q_shape \o keepdim) ELSE values

\* lines 1250-1331 of _quantile on the prepared array
QuantileResult(arr, axis, c, keepdim, flag) ==
  QuantileKeepdim(
    QuantileValues(QuantileSorted(arr, axis, SquashNans(c)), QuantileQ(c), axis,
                   QuantileMethod(c), c.keepdims, QuantileQDType(flag), SquashNans(c)),
    QuantileQ(c).shape, c.keepdims, keepdim)

\* the sort and the gathers of a validated call
QuantileCompute ==
  /\ pc = "validated"
  /\ result' = QuantileResult(a, dims[1], call, QuantilePrepare(call, x64).keepdim, x64)
  /\ backend' = << [fn |-> "sort", init |-> 0, op |-> "sort", dims |-> dims,
                    out |-> QuantileSorted(a, dims[1], SquashNans(call))],
                   [fn |-> "gather", init |-> 0, op |-> QuantileMethod(call), dims |-> dims,
                    out |-> result',
                    index |-> QuantileIndices(QuantileSorted(a, dims[1], SquashNans(call)),
                                              QuantileQ(call), dims[1], call.keepdims,
                                              QuantileQDType(x64), SquashNans(call))] >>
  /\ pc' = "done"
  /\ UNCHANGED << x64, call, a, pos_dims, dims, result_dtype, computation_dtype, op,
                  init_val, err, promoted >>

(***************************************************************************)
(* The calls the model makes.                                              *)
(***************************************************************************)
\* the shapes of rank at most MaxRank with every dimension in lo .. MaxDim
ShapesFrom(lo) == UNION { [1 .. r -> lo .. MaxDim] : r \in 0 .. MaxRank }
\* the shapes whose dimensions are all empty or of the largest size
EdgeShapes == UNION { [1 .. r -> {0, MaxDim}] : r \in 0 .. MaxRank }
\* one shape for each rank, its dimensions of different sizes: (MaxDim, ..., 1)
RankShapes == { [k \in 1 .. r |-> MaxDim - ((k - 1) % MaxDim)] : r \in 0 .. MaxRank }
ConstArray(shape, v, dtype) == MkArray(shape, [i \in Indices(shape) |-> v], dtype)
MkCall(name, arr, axis, dtype, out, keepdims, initial, where_, promote_integers) ==
  [name |-> name, a |-> arr, axis |-> axis, dtype |-> dtype, out |-> out,
   keepdims |-> keepdims, initial |-> initial, where_ |-> where_,
   promote_integers |-> promote_integers]
\* sum and prod promote integers by default; the other presets never do
DefaultPromote(name) == ReductionName(name) \in {"sum", "prod"}
ScalarInitial(v) == Some([shape |-> << >>, v |-> v])

\* the integer axes in range of a rank, and the pairs of them that denote two
\* different axes
AxesInRange(rank) == (-rank) .. (rank - 1)
DistinctPairs(rank) ==
  { p \in AxesInRange(rank) \X AxesInRange(rank) :
      _canonicalize_axis(p[1], rank) # _canonicalize_axis(p[2], rank) }
\* the valid axis arguments of a rank: None, an integer, a 1-tuple, a pair
ValidAxes(rank) ==
  {AxisNone}
  \cup { AxisInt(x) : x \in AxesInRange(rank) }
  \cup { AxisSeq(<< x >>) : x \in AxesInRange(rank) }
  \cup { AxisSeq(<< p[1], p[2] >>) : p \in DistinctPairs(rank) }

\* whether the public function takes initial= (all and any do not)
TakesInitial(name) == ReductionName(name) \notin {"all", "any"}
\* whether the public function takes dtype= and promote_integers=
TakesDType(name) == ReductionName(name) \in {"sum", "prod"}

\* the presets under their own names (the aliases left out)
Presets == {"sum", "prod", "max", "min", "all", "any"}

\* a call the public function accepts: all and any take no initial, only sum
\* and prod take dtype and promote_integers
WellFormed(c) ==
  /\ TakesInitial(c.name) \/ IsNone(c.initial)
  /\ TakesDType(c.name) \/ (IsNone(c.dtype) /\ ~c.promote_integers)

\* calls with masks and initial values, on shapes with empty dimensions, over
\* every valid axis
ErrorCall ==
  /\ pc = "idle"
  /\ \E n \in Names, s \in EdgeShapes :
       \E ax \in ValidAxes(Len(s)), ini \in {None, ScalarInitial(1)},
          w \in {None, Some(ConstArray(s, 1, "bool"))} :
         LET c == MkCall(n, ConstArray(s, 1, "int32"), ax, None, None, FALSE, ini, w,
                         DefaultPromote(n))
         IN WellFormed(c) /\ Enter(c, FALSE)

\* every axis argument of at most MaxAxes entries, in range or not, repeated or
\* not, named or not, with and without keepdims
AxisEntries(rank) == ((-(rank + 1)) .. rank) \cup {NamedBase}
AxisSpecs(rank) ==
  {AxisNone}
  \cup { AxisInt(x) : x \in AxisEntries(rank) }
  \cup { AxisSeq(q) : q \in UNION { [1 .. n -> AxisEntries(rank)] : n \in 0 .. MaxAxes } }
AxisCall ==
  /\ pc = "idle"
  /\ \E n \in Presets, s \in RankShapes :
       \E ax \in AxisSpecs(Len(s)), k \in BOOLEAN :
         Enter(MkCall(n, ConstArray(s, 1, "int32"), ax, None, None, k, None, None,
                      DefaultPromote(n)), FALSE)

\* every input dtype against every dtype argument, promote_integers and x64
DTypeCall ==
  /\ pc = "idle"
  /\ \E n \in Presets, d \in DTypes, dt \in {None} \cup { Some(d2) : d2 \in DTypes },
        pi \in BOOLEAN, f \in BOOLEAN :
       LET c == MkCall(n, ConstArray(<< 1 >>, 1, CanonicalizeDType(d, f)), AxisNone, dt,
                       None, FALSE, None, None, pi)
       IN WellFormed(c) /\ Enter(c, f)

\* the unsupported out argument, and an initial value that is not a scalar
LegacyCall ==
  /\ pc = "idle"
  /\ \E n \in Names, o \in {None, Some(ConstArray(<< >>, 0, "int32"))},
        ini \in {None, ScalarInitial(1), Some([shape |-> << MaxDim >>, v |-> 1])},
        w \in {None, Some(ConstArray(<< MaxDim >>, 1, "bool"))} :
       LET c == MkCall(n, ConstArray(<< MaxDim >>, 1, "int32"), AxisNone, None, o, FALSE,
                       ini, w, DefaultPromote(n))
       IN WellFormed(c) /\ Enter(c, FALSE)

\* the cumulative reductions: every dtype against every dtype argument
CumulativeDTypeCall ==
  /\ pc = "idle"
  /\ \E n \in CumulativeNames, d \in DTypes, ax \in {AxisNone, AxisInt(0)},
        dt \in {None} \cup { Some(d2) : d2 \in DTypes }, f \in BOOLEAN :
       CumulativeEnter([name |-> n, a |-> ConstArray(<< MaxDim >>, 1, CanonicalizeDType(d, f)),
                        axis |-> ax, dtype |-> dt, out |-> None], f)
\* the cumulative reductions: shapes with empty dimensions against every axis
CumulativeAxisCall ==
  /\ pc = "idle"
  /\ \E n \in CumulativeNames, s \in EdgeShapes, o \in {None, Some(NoArray)} :
       \E ax \in {AxisNone} \cup { AxisInt(x) : x \in (-(Len(s) + 1)) .. Len(s) } :
         CumulativeEnter([name |-> n, a |-> ConstArray(s, 1, "int8"), axis |-> ax,
                          dtype |-> None, out |-> o], FALSE)

\* the array q of a shape with every element v
QArray(shape, v) == [shape |-> shape, data |-> [i \in Indices(shape) |-> v]]
\* the quantile family: every axis argument without named axes
QuantileAxes(rank) ==
  {AxisNone}
  \cup { AxisInt(x) : x \in (-(rank + 1)) .. rank }
  \cup { AxisSeq(q) : q \in UNION { [1 .. n -> (-(rank + 1)) .. rank] : n \in 0 .. MaxAxes } }
QuantileAxisCall ==
  /\ pc = "idle"
  /\ \E n \in QuantileNames, s \in RankShapes :
       \E ax \in QuantileAxes(Len(s)), k \in BOOLEAN :
         QuantileEnter([name |-> n, a |-> ConstArray(s, 1, "float32"), q_shape |-> << >>,
                        q |-> QArray(<< >>, MkQ(1, 2)),
                        axis |-> ax, method |-> "linear", keepdims |-> k,
                        overwrite |-> FALSE], FALSE)
\* the quantile family: the arguments the validation rejects
QuantileErrorCall ==
  /\ pc = "idle"
  /\ \E n \in QuantileNames, d \in {"float32", "complex64"},
        qs \in {<< >>, << 1 >>, << 1, 1 >>}, ax \in {AxisNone, AxisSeq(<< 0, -1 >>)},
        m \in Methods \cup {"cubic"}, o \in BOOLEAN :
       QuantileEnter([name |-> n, a |-> ConstArray(<< MaxDim >>, 1, d), q_shape |-> qs,
                      q |-> QArray(qs, MkQ(1, 2)),
                      axis |-> ax, method |-> m, keepdims |-> FALSE, overwrite |-> o],
                     FALSE)

Next ==
  \/ ErrorCall
  \/ AxisCall
  \/ DTypeCall
  \/ LegacyCall
  \/ CumulativeDTypeCall
  \/ CumulativeAxisCall
  \/ QuantileAxisCall
  \/ QuantileErrorCall
  \/ CumulativeStep
  \/ QuantileValidate
  \/ QuantileCompute
  \/ Stages

Spec == Init /\ [][Next]_vars

(***************************************************************************)
(* Calls on arrays of every content: the values of the results.            *)
(***************************************************************************)
\* the element values of the arrays of a dtype: its extremes
Elems(d) ==
  CASE d = "int8" -> {-128, 127}
    [] d = "uint8" -> {0, 255}
    [] d = "bool" -> {0, 1}
ValueDTypes == {"int8", "uint8", "bool"}
ValueShapes == { s \in ShapesFrom(1) : ProdSeq(s) <= MaxSize }
\* the arrays of dtype d and shape s with their elements in E
ArraysOver(d, s, E) == { MkArray(s, f, d) : f \in [Indices(s) -> E] }
\* None and every single non-negative axis
SmallAxes(rank) == {AxisNone} \cup { AxisInt(x) : x \in 0 .. (rank - 1) }
\* the initial values tried with a dtype
Initials(d) ==
  CASE d = "int8" -> {-7, 100}
    [] d = "uint8" -> {2, 200}
    [] d = "bool" -> {0, 1}

\* prod of extreme elements is multiplied out in the narrow dtype only, and
\* prod under a mask over at most MaxSize elements: a longer promoted product
\* leaves the range of the model's integers
InModelRange(c) ==
  \/ ReductionName(c.name) # "prod"
  \/ IsNone(c.where_) /\ ~c.promote_integers
  \/ ~IsNone(c.where_)
     /\ ProdSeq(BroadcastShapes(Get(c.where_).shape, c.a.shape)) <= MaxSize

\* sum, prod, max and min with an initial value
InitialCall ==
  /\ pc = "idle"
  /\ \E d \in ValueDTypes, s \in ValueShapes :
       \E arr \in ArraysOver(d, s, Elems(d)), n \in {"sum", "prod", "max", "min"},
          ax \in SmallAxes(Len(s)), v \in Initials(d), pi \in BOOLEAN :
         LET c == MkCall(n, arr, ax, None, None, FALSE, ScalarInitial(v), None, pi)
         IN WellFormed(c) /\ InModelRange(c) /\ Enter(c, FALSE)

\* the array of dtype d and shape s with the distinct elements -3, 4, 11, 18,
\* ... for int8 and 1, 8, 15, 22, ... for uint8
MaskedArray(d, s) ==
  MkArray(s, [i \in Indices(s) |-> 7 * LinearIndex(i, s) + (IF d = "int8" THEN -3 ELSE 1)], d)
\* sum, prod, max and min under every mask that broadcasts against the array
MaskCall ==
  /\ pc = "idle"
  /\ \E d \in {"int8", "uint8"}, s \in ValueShapes, t \in ValueShapes :
       /\ BroadcastShapes(t, s) # << -1 >>
       /\ \E m \in ArraysOver("bool", t, {0, 1}), ax \in SmallAxes(Len(s)),
             v \in { << "sum", FALSE, None >>, << "sum", TRUE, None >>,
                     << "sum", FALSE, ScalarInitial(5) >>, << "prod", FALSE, None >>,
                     << "max", FALSE, ScalarInitial(5) >>,
                     << "min", FALSE, ScalarInitial(5) >> } :
            LET c == MkCall(v[1], MaskedArray(d, s), ax, None, None, v[2], v[3], Some(m),
                            DefaultPromote(v[1]))
            IN InModelRange(c) /\ Enter(c, FALSE)

\* sum over every valid axis argument, with and without integer promotion
DecompCall ==
  /\ pc = "idle"
  /\ \E d \in ValueDTypes, s \in ValueShapes :
       \E arr \in ArraysOver(d, s, Elems(d)), ax \in ValidAxes(Len(s)), pi \in BOOLEAN :
         Enter(MkCall("sum", arr, ax, None, None, FALSE, None, None, pi), FALSE)

NextValues == InitialCall \/ MaskCall \/ DecompCall \/ Stages

SpecValues == Init /\ [][NextValues]_vars

(***************************************************************************)
(* Properties of the reduction core.                                       *)
(***************************************************************************)
\* a call of the reduction core is in progress
InReduction == pc # "idle" /\ call.name \in Names
\* the operators without a true identity
NoIdentity(name) == name \in {"max", "min", "amax", "amin"}
\* the axis an entry of an axis argument denotes
Denote(x, rank) == IF IsNamed(x) THEN x ELSE IF x < 0 THEN x + rank ELSE x
\* every integer entry is in range
EntriesInRange(c) ==
  \A k \in 1 .. Len(c.axis.v) :
    IsNamed(c.axis.v[k]) \/ (-Rank(c.a) <= c.axis.v[k] /\ c.axis.v[k] < Rank(c.a))
\* two entries denote the same axis
SameAxisTwice(c) ==
  \E j, k \in 1 .. Len(c.axis.v) :
    j # k /\ Denote(c.axis.v[j], Rank(c.a)) = Denote(c.axis.v[k], Rank(c.a))
\* the positional axes a call reduces
ReducedAxes(c) ==
  IF c.axis.kind = "none" THEN 0 .. (Rank(c.a) - 1)
  ELSE { Denote(c.axis.v[k], Rank(c.a)) : k \in 1 .. Len(c.axis.v) } \cap (0 .. (Rank(c.a) - 1))
EmptyReduced(c) == \E d \in ReducedAxes(c) : c.a.shape[d + 1] = 0

\* C1: max, min, amax and amin called with a where mask and without initial
\* fail, for every array and axis, with the mask-without-identity error (a
\* call that also passes out fails on out); the error is raised for no call
\* that gives initial and for no call of sum, prod, all or any.
C1_MaskNeedsInitial ==
  InReduction =>
    /\ (NoIdentity(call.name) /\ ~IsNone(call.where_) /\ IsNone(call.initial)
        /\ pc # "check_args")
       => /\ pc = "error"
          /\ err = IF IsNone(call.out) THEN "no_identity_where" ELSE "out_not_supported"
    /\ err = "no_identity_where"
       => (NoIdentity(call.name) /\ ~IsNone(call.where_) /\ IsNone(call.initial))
C1_Witness ==
  /\ InReduction /\ pc = "error" /\ err = "no_identity_where"
  /\ call.name = "amin" /\ call.axis = AxisInt(-1) /\ call.a.shape = << 0, MaxDim >>

\* C2 as stated: max and min called without initial raise the zero-size error
\* exactly when a reduced axis has size 0.
C2_ZeroSizeExactlyWhenEmpty ==
  (InReduction /\ pc \in {"done", "error"} /\ NoIdentity(call.name)
   /\ IsNone(call.initial) /\ IsNone(call.out) /\ EntriesInRange(call)
   /\ ~SameAxisTwice(call))
  => (err = "zero_size" <=> EmptyReduced(call))
\* C2: max and min called without initial and without a where mask raise the
\* zero-size error exactly when a reduced axis has size 0; the error is raised
\* for no call that gives initial, for no call of sum, prod, all or any, and
\* for no call whose reduced axes all have size >= 1.
C2_ZeroSizeWithoutMask ==
  InReduction =>
    /\ (pc \in {"done", "error"} /\ NoIdentity(call.name) /\ IsNone(call.initial)
        /\ IsNone(call.where_) /\ IsNone(call.out) /\ EntriesInRange(call)
        /\ ~SameAxisTwice(call))
       => (err = "zero_size" <=> EmptyReduced(call))
    /\ err = "zero_size"
       => (NoIdentity(call.name) /\ IsNone(call.initial) /\ EmptyReduced(call))
C2_Witness ==
  /\ InReduction /\ pc = "error" /\ err = "zero_size"
  /\ call.name = "max" /\ call.axis = AxisInt(-1) /\ call.a.shape = << MaxDim, 0 >>

\* the identity of an operator over a dtype
Identity(o, d) ==
  CASE o = "add" -> 0
    [] o = "mul" -> 1
    [] o = "or" -> 0
    [] o = "and" -> 1
    [] o = "max" -> IF d = "bool" THEN 0
                    ELSE IF IsInteger(d) THEN IInfoMin(d)
                    ELSE IF SupportsInf(d) THEN NegInf ELSE FInfoMin(d)
    [] o = "min" -> IF d = "bool" THEN 1
                    ELSE IF IsInteger(d) THEN IInfoMax(d)
                    ELSE IF SupportsInf(d) THEN PosInf ELSE FInfoMax(d)

\* C3: in a call that gives initial the backend reduce is invoked once, with
\* the operator's identity over the computation dtype as its init value, and
\* the result is op(initial, backend result), combined after the reduce.
C3_InitialAfterReduce ==
  (InReduction /\ ~IsNone(call.initial) /\ pc \in {"initial", "finish", "done"})
  => /\ Len(backend) = 1
     /\ backend[1].fn = "reduce" => backend[1].init = Identity(op, computation_dtype)
     /\ pc = "initial" => result = backend[1].out
     /\ pc = "finish" =>
          /\ result.shape = backend[1].out.shape
          /\ \A i \in Indices(result.shape) :
               result.data[i] =
                 ApplyOp(op, ConvertValue(Get(call.initial).v, computation_dtype),
                         backend[1].out.data[i], computation_dtype)
     /\ (pc = "done" /\ ~call.keepdims) =>
          \A i \in Indices(result.shape) :
            result.data[i] =
              ConvertValue(ApplyOp(op, ConvertValue(Get(call.initial).v, computation_dtype),
                                   backend[1].out.data[i], computation_dtype),
                           result.dtype)
C3_Witness ==
  /\ InReduction /\ pc = "finish" /\ call.name = "max"
  /\ call.initial = ScalarInitial(100) /\ call.a.dtype = "int8"
  /\ backend[1].init = -128
  /\ backend[1].out.data[<< >>] = -128
  /\ result.data[<< >>] = 100

\* values of a dtype: all of them for bool and the 8-bit integers, the extremes
\* and the values around zero for the wider ones, NaN and the infinities
SampleValues(d) ==
  IF d = "bool" THEN {0, 1}
  ELSE IF IsInteger(d)
  THEN (IF Bits(d) = 8 THEN IInfoMin(d) .. IInfoMax(d)
        ELSE { x \in {IInfoMin(d), IInfoMin(d) + 1, -1, 0, 1, 2, IInfoMax(d) - 1,
                      IInfoMax(d)} : IInfoMin(d) <= x })
  ELSE {FInfoMin(d), -1, 0, 1, 2, FInfoMax(d), NaN}
       \cup (IF SupportsInf(d) THEN {PosInf, NegInf} ELSE {})

\* C4: the init value handed to the backend is an identity of the operator
\* used over the computation dtype: op(e, x) = x = op(x, e) for every x.
C4_InitValIsIdentity ==
  (InReduction /\ pc \in {"reduce", "initial", "finish", "done"}
   /\ computation_dtype \notin ComplexDTypes)
  => /\ init_val = Identity(op, computation_dtype)
     /\ \A x \in SampleValues(computation_dtype) :
          /\ ApplyOp(op, init_val, x, computation_dtype) = x
          /\ ApplyOp(op, x, init_val, computation_dtype) = x
C4_Witness ==
  /\ InReduction /\ pc = "reduce" /\ call.name = "max"
  /\ computation_dtype = "float8_e4m3fn" /\ init_val = -448

\* C5 as stated: sum(a, axis, where=m) equals sum(where(m, a, 0), axis) for
\* every mask that broadcasts against a.
C5_MaskedSumEquivalence ==
  (InReduction /\ pc = "done" /\ call.name = "sum" /\ ~IsNone(call.where_))
  => LET rhs == Reduction([call EXCEPT !.a = Where(Get(call.where_), call.a, 0),
                                       !.where_ = None], x64)
     IN rhs.err = "none" /\ rhs.result = result
\* C5 for the masks that broadcast to the shape of a
C5_MaskOfInputShape ==
  (InReduction /\ pc = "done" /\ call.name = "sum" /\ ~IsNone(call.where_)
   /\ BroadcastShapes(Get(call.where_).shape, call.a.shape) = call.a.shape)
  => LET rhs == Reduction([call EXCEPT !.a = Where(Get(call.where_), call.a, 0),
                                       !.where_ = None], x64)
     IN rhs.err = "none" /\ rhs.result = result
C5_Witness ==
  /\ InReduction /\ pc = "done" /\ call.name = "sum" /\ ~IsNone(call.where_)
  /\ Rank(Get(call.where_)) > Rank(call.a)
  /\ call.axis = AxisNone
  /\ Rank(result) = 1

\* C6: an output element whose reduced slice is masked out entirely is the
\* initial value when one is given, else the identity: 0 for sum, 1 for prod.
C6_FullyMaskedSlice ==
  (InReduction /\ pc = "done" /\ ~IsNone(call.where_)
   /\ call.name \in {"sum", "prod", "max", "min"})
  => LET m == Get(call.where_)
         B == BroadcastShapes(m.shape, call.a.shape)
         mb == BroadcastTo(m, B)
         R == ReducedAxes(call)
         Proj(i) == IF call.keepdims
                    THEN [k \in 1 .. Len(i) |-> IF (k - 1) \in R THEN 0 ELSE i[k]]
                    ELSE DropAt(i, R, 0)
     IN \A r \in Indices(result.shape) :
          (\A i \in Indices(B) : Proj(i) = r => mb.data[i] = 0)
          => result.data[r] = IF ~IsNone(call.initial) THEN Get(call.initial).v
                              ELSE IF call.name = "sum" THEN 0 ELSE 1
C6_Witness ==
  /\ InReduction /\ pc = "done" /\ call.name = "max" /\ ~IsNone(call.where_)
  /\ call.axis = AxisNone /\ Rank(call.a) = 2
  /\ \A i \in Indices(Get(call.where_).shape) : Get(call.where_).data[i] = 0
  /\ \E i \in Indices(call.a.shape) : call.a.data[i] > 5
  /\ result.data[<< >>] = 5

\* the single-axis sums of arr over the axes of order, one after the other;
\* the axes are positions of arr, and summing one out shifts those above it
RECURSIVE NestedSum(_, _, _, _)
NestedSum(arr, order, pi, flag) ==
  IF order = << >> THEN arr
  ELSE LET ax == Head(order)
           inner == Reduction(MkCall("sum", arr, AxisInt(ax), None, None, FALSE, None,
                                     None, pi), flag)
       IN NestedSum(inner.result,
                    [k \in 1 .. (Len(order) - 1) |->
                       IF order[k + 1] > ax THEN order[k + 1] - 1 ELSE order[k + 1]],
                    pi, flag)
\* the orders in which the axes of S can be taken
Orders(S) ==
  { q \in [1 .. Cardinality(S) -> S] : \A j, k \in 1 .. Cardinality(S) : q[j] = q[k] => j = k }

C9_DuplicateAxes ==
  /\ (InReduction /\ pc \in {"done", "error"} /\ call.axis.kind = "seq"
      /\ EntriesInRange(call))
     => IF SameAxisTwice(call)
        THEN pc = "error" /\ err = (IF CheckArgs(call) # "none" THEN CheckArgs(call)
                                    ELSE "duplicate_axis")
        ELSE err \notin {"duplicate_axis", "axis_out_of_bounds"}
  /\ (call.name \in QuantileNames /\ pc \in {"validated", "error"}
      /\ call.axis.kind = "seq" /\ EntriesInRange(call))
     => IF SameAxisTwice(call)
        THEN /\ pc = "error"
             /\ err \in {"repeated_axis", "overwrite_or_out", "bad_method", "complex_input"}
             /\ (~call.overwrite /\ QuantileMethod(call) \in Methods
                 /\ call.a.dtype \notin ComplexDTypes) => err = "repeated_axis"
        ELSE /\ err \notin {"repeated_axis", "axis_out_of_bounds"}
             /\ (~call.overwrite /\ QuantileMethod(call) \in Methods
                 /\ call.a.dtype \notin ComplexDTypes /\ Len(QuantileQShape(call)) <= 1)
                => pc = "validated"
C9_Witness ==
  /\ InReduction /\ pc = "error" /\ err = "duplicate_axis"
  /\ call.axis = AxisSeq(<< 1, -1 >>) /\ Rank(call.a) = 2

\* the dtype the promotion of integers gives
ExpectedPromotion(d, flag) ==
  LET default_bits == IF flag THEN 64 ELSE 32
  IN IF d = "bool" THEN (IF flag THEN "int64" ELSE "int32")
     ELSE IF d \in UnsignedDTypes /\ Bits(d) < default_bits
     THEN (IF flag THEN "uint64" ELSE "uint32")
     ELSE IF d \in SignedDTypes /\ Bits(d) < default_bits
     THEN (IF flag THEN "int64" ELSE "int32")
     ELSE d

\* C10: _promote_integer_dtype maps bool to the default signed integer, the
\* narrower unsigned and signed integers to the default of their signedness
\* and every other dtype to itself; sum and prod apply it to the result dtype
\* exactly when promote_integers is set and no dtype is given, an explicit
\* dtype is the result dtype, and max and min never apply it.
C10_IntegerPromotion ==
  /\ ~IsNone(promoted) => Get(promoted)[2] = ExpectedPromotion(Get(promoted)[1], x64)
  /\ (InReduction /\ pc \in {"reduce", "initial", "finish", "done"})
     => LET given == IF ReductionName(call.name) \in {"sum", "prod"} /\ call.a.dtype = "bool"
                     THEN "int32"
                     ELSE IF ReductionName(call.name) \in {"all", "any"} THEN "bool"
                     ELSE call.a.dtype
            applies == /\ ReductionName(call.name) \in {"sum", "prod"}
                       /\ call.promote_integers
                       /\ IsNone(call.dtype)
        IN /\ ~IsNone(promoted) <=> applies
           /\ applies => promoted = Some(<< given, ExpectedPromotion(given, x64) >>)
           /\ result_dtype =
                CanonicalizeDType(IF ~IsNone(call.dtype) THEN Get(call.dtype)
                                  ELSE IF applies THEN ExpectedPromotion(given, x64)
                                  ELSE given, x64)
           /\ pc = "done" => result.dtype = result_dtype
           /\ NoIdentity(call.name) => IsNone(promoted)
C10_Witness ==
  /\ InReduction /\ pc = "done" /\ call.name = "prod" /\ x64
  /\ call.a.dtype = "uint8" /\ IsNone(call.dtype) /\ call.promote_integers
  /\ promoted = Some(<< "uint8", "uint64" >>)
  /\ result.dtype = "uint64"
\* the promotion of bool, which only the cumulative reductions reach
C10_BoolWitness ==
  /\ call.name = "cumsum" /\ pc = "done" /\ call.a.dtype = "bool"
  /\ promoted = Some(<< "bool", "int32" >>) /\ result.dtype = "int32"

\* the reduction has passed the dtype stage
PastDTypes == pc \in {"reduce", "initial", "finish", "done"}
\* the 16-bit floating dtypes
HalfDTypes == {"float16", "bfloat16"}

\* C11: sum and prod whose result dtype is float16 or bfloat16 accumulate in
\* float32 (the backend reduces an array of float32) and return an array of
\* the 16-bit result dtype; for every other result dtype the computation
\* dtype is the result dtype; max, min, all and any compute in the result
\* dtype whatever it is.
C11_UpcastF16 ==
  (InReduction /\ PastDTypes) =>
    /\ computation_dtype =
         IF ReductionName(call.name) \in {"sum", "prod"} /\ result_dtype \in HalfDTypes
         THEN "float32" ELSE result_dtype
    /\ a.dtype = computation_dtype
    /\ \A k \in 1 .. Len(backend) : backend[k].out.dtype = computation_dtype
    /\ pc = "done" => result.dtype = result_dtype
C11_Witness ==
  /\ InReduction /\ pc = "done" /\ call.name = "prod"
  /\ call.a.dtype = "int32" /\ call.dtype = Some("bfloat16")
  /\ Len(backend) = 1 /\ backend[1].out.dtype = "float32"
  /\ result.dtype = "bfloat16"
\* max of a float16 array is computed in float16
C11_NoUpcastWitness ==
  /\ InReduction /\ pc = "done" /\ call.name = "max" /\ call.a.dtype = "float16"
  /\ Len(backend) = 1 /\ backend[1].out.dtype = "float16"

\* some entry of the axis argument is a named axis
NamedRequested(c) == \E k \in 1 .. Len(c.axis.v) : IsNamed(c.axis.v[k])
\* the presets that pass no parallel_reduce
NoCollective(name) == ReductionName(name) \in {"prod", "all", "any"}

\* C12: a reduction that reaches the backend makes exactly one invocation:
\* the plain reduce when every reduced axis is positional (axis=None
\* included), the collective strategy when some reduced axis is named; prod,
\* all and any, which pass no collective strategy, fail on a named axis with
\* the not-implemented error and invoke nothing, and the error is raised in
\* no other case.
C12_Dispatch ==
  InReduction =>
    /\ pc \in {"initial", "finish", "done"} =>
         /\ Len(backend) = 1
         /\ backend[1].fn = IF NamedRequested(call) THEN "parallel_reduce" ELSE "reduce"
         /\ NamedRequested(call) => ~NoCollective(call.name)
    /\ (pc \in {"done", "error"} /\ NamedRequested(call) /\ NoCollective(call.name)
        /\ IsNone(call.out) /\ EntriesInRange(call) /\ ~SameAxisTwice(call))
       => (err = "named_not_implemented" /\ backend = << >>)
    /\ err = "named_not_implemented"
       => (NamedRequested(call) /\ NoCollective(call.name) /\ backend = << >>)
C12_Witness ==
  /\ InReduction /\ pc = "done" /\ call.name = "sum"
  /\ call.axis = AxisSeq(<< 0, NamedBase >>)
  /\ Len(backend) = 1 /\ backend[1].fn = "parallel_reduce"
\* prod over a positional and a named axis fails and reduces nothing
C12_ErrorWitness ==
  /\ InReduction /\ pc = "error" /\ err = "named_not_implemented"
  /\ call.name = "prod" /\ call.axis = AxisSeq(<< NamedBase, -1 >>) /\ backend = << >>

(***************************************************************************)
(* Calls of the statistics and of the NaN-aware reductions.                *)
(***************************************************************************)
MkStats(name, arr, axis, dtype, keepdims, where_) ==
  [name |-> name, a |-> arr, axis |-> axis, dtype |-> dtype, out |-> None,
   keepdims |-> keepdims, where_ |-> where_, initial |-> None, ddof |-> 0,
   ddof_is_int |-> TRUE, correction |-> None, weights |-> None, returned |-> FALSE]
\* the array of dtype d and shape s with the distinct elements -2, 1, 4, 7, ...
StatArray(d, s) == MkArray(s, [i \in Indices(s) |-> 3 * LinearIndex(i, s) - 2], d)
\* the shapes of the value calls and the shapes with one empty dimension
StatShapes == ValueShapes \cup {<< 0 >>, << MaxDim, 0 >>}
\* the masks that broadcast to shape s, and None
MasksFor(s) ==
  {None} \cup UNION { { Some(m) : m \in ArraysOver("bool", t, {0, 1}) } :
                       t \in { u \in ValueShapes : BroadcastShapes(u, s) = s } }

\* mean of the distinct-valued arrays under every mask, over every valid axis
MeanCall ==
  /\ pc = "idle"
  /\ \E d \in {"float32", "int8", "float16"}, s \in StatShapes :
       \E ax \in ValidAxes(Len(s)), k \in BOOLEAN, w \in MasksFor(s),
          dt \in {None, Some("float16")}, o \in {None, Some(NoArray)} :
         /\ (o # None => (d = "int8" /\ w = None /\ dt = None))
         /\ StatsEnter([MkStats("mean", StatArray(d, s), ax, dt, k, w) EXCEPT !.out = o],
                       FALSE)

\* the corrections tried: none, one, and as many as the largest slice holds
Corrections == {0, 1, MaxSize}
\* var of the distinct-valued arrays under every mask, over every single axis
VarCall ==
  /\ pc = "idle"
  /\ \E d \in {"float32", "int8"}, s \in StatShapes :
       \E ax \in SmallAxes(Len(s)) \cup {AxisSeq(<< 0, -1 >>)}, k \in BOOLEAN,
          w \in MasksFor(s), dd \in Corrections :
         /\ ax.kind = "seq" => Len(s) = 2
         /\ StatsEnter([MkStats("var", StatArray(d, s), ax, None, k, w) EXCEPT !.ddof = dd],
                       FALSE)
\* var and std with every combination of ddof and correction
DdofCall ==
  /\ pc = "idle"
  /\ \E n \in {"var", "std"}, dd \in 0 .. 2, di \in BOOLEAN,
        co \in {None} \cup { Some(v) : v \in 0 .. 2 }, ax \in {AxisNone, AxisInt(0)} :
       StatsEnter([MkStats(n, StatArray("float32", << MaxDim, 2 >>), ax, None, FALSE, None)
                     EXCEPT !.ddof = dd, !.ddof_is_int = di, !.correction = co], FALSE)
\* std with every dtype argument, on real and complex input
StdCall ==
  /\ pc = "idle"
  /\ \E d \in {"float32", "int8", "complex64"}, s \in {<< MaxDim >>, << 2, MaxDim >>},
        dt \in {None} \cup { Some(d2) : d2 \in DTypes }, k \in BOOLEAN,
        co \in {None, Some(1)}, o \in {None, Some(NoArray)} :
       \E ax \in SmallAxes(Len(s)), w \in {None, Some(StatArray("bool", s))} :
         StatsEnter([MkStats("std", StatArray(d, s), ax, dt, k, w)
                       EXCEPT !.correction = co, !.out = o], FALSE)

\* the weights of shape t: 1, 2, 3, ... or -1, 1, 3, ... (which can sum to 0)
WeightArrays(t) ==
  { MkArray(t, [i \in Indices(t) |-> LinearIndex(i, t) + 1], "float32"),
    MkArray(t, [i \in Indices(t) |-> 2 * LinearIndex(i, t) - 1], "int8") }
\* the axis arguments of average: None, every integer in range or just out of
\* it, a 1-tuple, a pair
AverageAxes(rank) ==
  {AxisNone, AxisSeq(<< 0 >>), AxisSeq(<< 0, -1 >>)}
  \cup { AxisInt(x) : x \in (-(rank + 1)) .. rank }
\* average with and without weights, of the shape of a or not
AverageCall ==
  /\ pc = "idle"
  /\ \E d \in {"float32", "int8"}, s \in ValueShapes,
        t \in ValueShapes \cup {<< MaxDim + 1 >>} :
       \E ax \in AverageAxes(Len(s)), k \in BOOLEAN, rt \in BOOLEAN,
          w \in {None} \cup { Some(x) : x \in WeightArrays(t) } :
         /\ (w = None => t = << >>)
         /\ StatsEnter([MkStats("average", StatArray(d, s), ax, None, k, None)
                         EXCEPT !.weights = w, !.returned = rt], FALSE)

\* the shapes of the NaN-aware calls, and the arrays over NaN and two numbers
NanShapes == {<< MaxDim >>, << 2, 2 >>}
NanArrays(d, s) == ArraysOver(d, s, {NaN, -2, 3})
\* no mask, the mask of every other element, the mask of all elements but one
NanMasks(s) ==
  {None, Some(MkArray(s, [i \in Indices(s) |-> LinearIndex(i, s) % 2], "bool")),
   Some(MkArray(s, [i \in Indices(s) |-> IF LinearIndex(i, s) = 1 THEN 0 ELSE 1], "bool"))}
\* the integer and boolean inputs of the NaN-aware calls
IntArrays(s) ==
  {StatArray("int8", s), MkArray(s, [i \in Indices(s) |-> LinearIndex(i, s) % 2], "bool")}
\* nanmin, nanmax, nansum, nanprod of floating arrays that hold NaNs
NanReduceCall ==
  /\ pc = "idle"
  /\ \E n \in {"nanmin", "nanmax", "nansum", "nanprod"}, s \in NanShapes,
        d \in {"float32", "float8_e4m3fn"} :
       \E x \in NanArrays(d, s), ax \in SmallAxes(Len(s)), k \in BOOLEAN,
          w \in NanMasks(s), ini \in {None, ScalarInitial(1)} :
         /\ d = "float8_e4m3fn" => n \in {"nanmin", "nanmax"}
         /\ StatsEnter([MkStats(n, x, ax, None, k, w) EXCEPT !.initial = ini], FALSE)
\* nanmean, nanvar, nanstd of floating arrays that hold NaNs, and of integer
\* and boolean arrays
NanStatCall ==
  /\ pc = "idle"
  /\ \E n \in {"nanmean", "nanvar", "nanstd"}, s \in NanShapes :
       \E x \in NanArrays("float32", s) \cup IntArrays(s), ax \in SmallAxes(Len(s)),
          k \in BOOLEAN, w \in NanMasks(s), dd \in Corrections,
          dt \in {None, Some("float16")}, o \in {None, Some(NoArray)} :
         /\ n # "nanvar" => dd = 0
         /\ (dt # None \/ o # None) => x.dtype # "float32"
         /\ StatsEnter([MkStats(n, x, ax, dt, k, w) EXCEPT !.ddof = dd, !.out = o], FALSE)
\* nanmin, nanmax, nansum, nanprod of integer and boolean arrays
NanIntCall ==
  /\ pc = "idle"
  /\ \E n \in {"nanmin", "nanmax", "nansum", "nanprod"}, s \in NanShapes :
       \E x \in IntArrays(s), ax \in SmallAxes(Len(s)), k \in BOOLEAN,
          w \in NanMasks(s), ini \in {None, ScalarInitial(1)},
          dt \in {None, Some("float16")}, o \in {None, Some(NoArray)} :
         /\ n \in {"nanmin", "nanmax"} => dt = None
         /\ StatsEnter([MkStats(n, x, ax, dt, k, w) EXCEPT !.initial = ini, !.out = o],
                       FALSE)

NextStats ==
  \/ MeanCall \/ AverageCall \/ VarCall \/ DdofCall \/ StdCall \/ NanStatCall
  \/ StatsStep \/ Return

NextNan == NanReduceCall \/ NanIntCall \/ StatsStep \/ Return

SpecNan == Init /\ [][NextNan]_vars

SpecStats == Init /\ [][NextStats]_vars

(***************************************************************************)
(* Properties of the statistics.                                           *)
(***************************************************************************)
\* the output index the input index i is reduced into
Proj(c, i) ==
  IF c.keepdims
  THEN [k \in 1 .. Len(i) |-> IF (k - 1) \in ReducedAxes(c) THEN 0 ELSE i[k]]
  ELSE DropAt(i, ReducedAxes(c), 0)
\* whether the mask of the call includes the element at index i
Included(c, i) ==
  IsNone(c.where_) \/ Get(c.where_).data[BroadcastIndex(i, Get(c.where_).shape)] # 0
\* the elements of the slice reduced into the output index r, the included ones
Slice(c, r) == { i \in Indices(c.a.shape) : Proj(c, i) = r }
IncludedSlice(c, r) == { i \in Slice(c, r) : Included(c, i) }
\* the exact sum of f over the index set S
RECURSIVE SumOver(_, _)
SumOver(f, S) ==
  IF S = {} THEN 0
  ELSE LET i == CHOOSE j \in S : TRUE
       IN FAdd(f[i], SumOver(f, S \ {i}), "float64")
\* the product of the sizes of the reduced axes
ReducedSize(c) ==
  ProdSeq([k \in 1 .. Rank(c.a) |-> IF (k - 1) \in ReducedAxes(c) THEN c.a.shape[k] ELSE 1])
\* the shape of the result of a reduction of the call
ReducedShape(c) ==
  IF c.keepdims
  THEN [k \in 1 .. Rank(c.a) |-> IF (k - 1) \in ReducedAxes(c) THEN 1 ELSE c.a.shape[k]]
  ELSE DropAt(c.a.shape, ReducedAxes(c), 0)

\* C13: every element of mean(a, axis) is the sum of the included elements of
\* its slice divided by their number: without a mask the product of the sizes
\* of the reduced axes (the size of a for axis=None), with a mask the number
\* of true entries of the mask, broadcast to the shape of a, in the slice.
C13_MeanIsSumOverCount ==
  (call.name = "mean" /\ pc = "done")
  => /\ result.shape = ReducedShape(call)
     /\ \A r \in Indices(result.shape) :
          /\ result.data[r] =
               FDiv(SumOver(call.a.data, IncludedSlice(call, r)),
                    Cardinality(IncludedSlice(call, r)), "float64")
          /\ IsNone(call.where_) => Cardinality(IncludedSlice(call, r)) = ReducedSize(call)
          /\ call.axis.kind = "none" => Slice(call, r) = Indices(call.a.shape)
C13_Witness ==
  /\ call.name = "mean" /\ pc = "done" /\ call.a.shape = << 2, 2 >>
  /\ call.axis = AxisNone /\ ~IsNone(call.where_)
  /\ Get(call.where_).shape = << 2, 1 >>
  /\ Get(call.where_).data[<< 0, 0 >>] = 1 /\ Get(call.where_).data[<< 1, 0 >>] = 0
  /\ result.data[<< >>] = MkQ(-1, 2)
\* without a mask the mean of -2, 1, 4, 7 is 10/4
C13_UnmaskedWitness ==
  /\ call.name = "mean" /\ pc = "done" /\ call.a.shape = << 2, 2 >>
  /\ call.axis = AxisSeq(<< -1, 0 >>) /\ IsNone(call.where_)
  /\ result.data[<< >>] = MkQ(5, 2)

\* the variance of the elements of arr at the index set S with the correction
\* corr: the mean of the squared distances to the mean, NaN unless the number
\* of elements exceeds the correction
RefVar(arr, S, corr) ==
  LET n == Cardinality(S)
      m == FDiv(SumOver(arr.data, S), n, "float64")
      sq == [i \in S |-> FSquare(FSub(arr.data[i], m, "float64"), "float64")]
  IN IF n - corr > 0 THEN FDiv(SumOver(sq, S), n - corr, "float64") ELSE NaN
\* the correction a call of var or std asks for
AskedCorrection(c) == IF IsNone(c.correction) THEN c.ddof ELSE Get(c.correction)
\* both ddof and correction are supplied
BothSupplied(c) == ~IsNone(c.correction) /\ (c.ddof # 0 \/ ~c.ddof_is_int)

\* C14: var and std called with a correction and with a ddof other than the
\* default raise the error that the two cannot both be given, and the error
\* is raised in no other case; called with ddof alone they use ddof, called
\* with correction alone they use correction, and do not fail.
C14_DdofOrCorrection ==
  (call.name \in {"var", "std"} /\ pc \in {"done", "error"} /\ IsNone(call.out)
   /\ IsNone(call.dtype) /\ IsNone(call.where_))
  => /\ BothSupplied(call) <=> err = "ddof_and_correction"
     /\ ~BothSupplied(call) =>
          /\ pc = "done"
          /\ \A r \in Indices(result.shape) :
               result.data[r] =
                 LET v == RefVar(call.a, Slice(call, r), AskedCorrection(call))
                 IN IF call.name = "std" THEN FSqrt(v) ELSE v
C14_Witness ==
  /\ call.name = "var" /\ pc = "error" /\ err = "ddof_and_correction"
  /\ call.ddof = 1 /\ call.correction = Some(2)
\* ddof alone: the variance of -2, 1, 4, 7 with ddof 1 is 45/3
C14_DdofWitness ==
  /\ call.name = "var" /\ pc = "done" /\ call.ddof = 1 /\ call.ddof_is_int
  /\ IsNone(call.correction) /\ call.axis = AxisNone /\ call.a.shape = << 2, 2 >>
  /\ result.data[<< >>] = 15
\* correction alone: the variance with correction 2 is 45/2
C14_CorrectionWitness ==
  /\ call.name = "var" /\ pc = "done" /\ call.ddof = 0 /\ call.correction = Some(2)
  /\ call.axis = AxisNone /\ call.a.shape = << 2, 2 >>
  /\ result.data[<< >>] = MkQ(45, 2)

\* the elements a variance is taken over: the included ones, and for nanvar
\* those of them that are not NaN
Counted(c, r) ==
  IF c.name = "nanvar"
  THEN { i \in IncludedSlice(c, r) : c.a.data[i] # NaN }
  ELSE IncludedSlice(c, r)

C15_NanWitness ==
  /\ call.name = "nanvar" /\ pc = "done" /\ call.a.shape = << 2, 2 >>
  /\ call.axis = AxisInt(1) /\ ~call.keepdims /\ call.ddof = 1 /\ IsNone(call.where_)
  /\ call.a.data[<< 0, 0 >>] = NaN /\ call.a.data[<< 0, 1 >>] = 3
  /\ call.a.data[<< 1, 0 >>] = -2 /\ call.a.data[<< 1, 1 >>] = 3
  /\ result.data[<< 0 >>] = NaN
  /\ result.data[<< 1 >>] = MkQ(25, 2)

\* the call of var that std makes
VarOfStd(c, flag) ==
  var(c.a, c.axis, c.dtype, None, 0, TRUE, c.keepdims, c.where_,
      Some(AskedCorrection(c)), flag)

\* C16 as stated: std fails whenever a dtype is given that is not floating.
C16_StdFloatingOnly ==
  (call.name = "std" /\ pc \in {"done", "error"} /\ ~IsNone(call.dtype)
   /\ Get(call.dtype) \notin FloatDTypes)
  => pc = "error"
\* C16: std returns the elementwise square root of var called with the same
\* axis, dtype, correction, keepdims and where, and fails as var fails; it
\* fails with the dtype error when a dtype is given that is neither floating
\* nor complex, and for no other dtype.
C16_StdIsSqrtOfVar ==
  (call.name = "std" /\ pc \in {"done", "error"} /\ ~BothSupplied(call))
  => LET v == VarOfStd(call, x64)
         rejected == ~IsNone(call.dtype) /\ ~IsInexact(Get(call.dtype))
     IN /\ rejected <=> err = "dtype_not_inexact"
        /\ (~rejected /\ IsNone(call.out)) =>
             /\ err = v.err
             /\ pc = "done" =>
                  /\ result.shape = v.result.shape
                  /\ result.dtype = v.result.dtype
                  /\ \A r \in Indices(result.shape) :
                       result.data[r] = FSqrt(v.result.data[r])
C16_Witness ==
  /\ call.name = "std" /\ pc = "done" /\ call.dtype = Some("float16")
  /\ call.a.shape = << MaxDim >> /\ call.a.dtype = "int8" /\ call.correction = Some(1)
  /\ IsNone(call.where_) /\ result.dtype = "float16"
  /\ IsSqrt(result.data[<< >>])
\* std with a complex dtype returns
C16_ComplexWitness ==
  /\ call.name = "std" /\ pc = "done" /\ call.dtype = Some("complex64")
\* std with an integer dtype fails
C16_ErrorWitness ==
  /\ call.name = "std" /\ pc = "error" /\ err = "dtype_not_inexact"
  /\ call.dtype = Some("int32")

\* the weight that goes with the element of a at index i: the weights of the
\* shape of a are taken elementwise, 1-D weights along the axis of the call
WeightAt(c, i) ==
  LET w == Get(c.weights)
  IN IF w.shape = c.a.shape THEN w.data[i]
     ELSE w.data[<< i[_canonicalize_axis(c.axis.v[1], Rank(c.a)) + 1] >>]
\* the weights of a shape other than a's that the call accepts
WeightsAccepted(c) ==
  /\ Rank(Get(c.weights)) = 1
  /\ c.axis.kind = "int"
  /\ Get(c.weights).shape[1] = c.a.shape[_canonicalize_axis(c.axis.v[1], Rank(c.a)) + 1]
\* an average with weights whose axis entries are all in range
WeightedCall(c) ==
  c.name = "average" /\ ~IsNone(c.weights) /\ EntriesInRange(c) /\ ~SameAxisTwice(c)

\* C17: average with weights of a shape other than a's is accepted exactly
\* when the weights are 1-D, axis is one integer and the length of the
\* weights is the size of a along that axis; weights that are not 1-D, axis
\* None, an axis tuple and a length mismatch each raise their error and no
\* average is returned; accepted weights are laid along that axis, and every
\* element of the result is sum(a * weights) / sum(weights) over its slice.
C17_WeightedAverage ==
  (WeightedCall(call) /\ pc \in {"done", "error"})
  => LET w == Get(call.weights)
         differ == w.shape # call.a.shape
     IN /\ differ => (pc = "done" <=> WeightsAccepted(call))
        /\ (differ /\ Rank(w) # 1) => err = "weights_not_1d"
        /\ (differ /\ Rank(w) = 1 /\ call.axis.kind = "none") => err = "axis_required"
        /\ (differ /\ Rank(w) = 1 /\ call.axis.kind = "seq") => err = "single_axis_expected"
        /\ (differ /\ Rank(w) = 1 /\ call.axis.kind = "int" /\ ~WeightsAccepted(call))
           => err = "weights_length"
        /\ pc = "error" => result = NoArray
        /\ err \in {"weights_not_1d", "axis_required", "single_axis_expected",
                    "weights_length"} => differ
        /\ pc = "done" =>
             /\ result.shape = ReducedShape(call)
             /\ \A r \in Indices(result.shape) :
                  result.data[r] =
                    FDiv(SumOver([i \in Slice(call, r) |->
                                    FMul(call.a.data[i], WeightAt(call, i), "float64")],
                                 Slice(call, r)),
                         SumOver([i \in Slice(call, r) |-> WeightAt(call, i)],
                                 Slice(call, r)),
                         "float64")
C17_Witness ==
  /\ call.name = "average" /\ pc = "done" /\ call.a.shape = << 2, 2 >>
  /\ ~IsNone(call.weights) /\ Get(call.weights).shape = << 2 >>
  /\ Get(call.weights).data[<< 0 >>] = 1 /\ Get(call.weights).data[<< 1 >>] = 2
  /\ call.axis = AxisInt(-2) /\ ~call.keepdims
  /\ result.data[<< 0 >>] = 2 /\ result.data[<< 1 >>] = 5
\* 1-D weights of the right length with an axis tuple are rejected
C17_TupleWitness ==
  /\ call.name = "average" /\ pc = "error" /\ err = "single_axis_expected"
  /\ call.axis = AxisSeq(<< 0 >>) /\ call.a.shape = << 2, 1 >>
  /\ Get(call.weights).shape = << 2 >>

(***************************************************************************)
(* Properties of the NaN-aware reductions.                                 *)
(***************************************************************************)
\* the included elements of the slice of r that are not NaN
NonNan(c, r) == { i \in IncludedSlice(c, r) : c.a.data[i] # NaN }
AllNaN(c, r) == \A i \in Slice(c, r) : c.a.data[i] = NaN
\* the smallest (nanmin) or largest (nanmax) of the values of f over S and acc
RECURSIVE ExtremeOver(_, _, _, _)
ExtremeOver(name, f, S, acc) ==
  IF S = {} THEN acc
  ELSE LET i == CHOOSE j \in S : TRUE
           keep == IF name = "nanmin" THEN FLessEq(acc, f[i]) ELSE FLessEq(f[i], acc)
       IN ExtremeOver(name, f, S \ {i}, IF keep THEN acc ELSE f[i])
\* the extreme of the values of f over the nonempty set S
Extreme(name, f, S) ==
  LET i == CHOOSE j \in S : TRUE IN ExtremeOver(name, f, S \ {i}, f[i])
\* the exact product of f over the index set S
RECURSIVE ProdOver(_, _)
ProdOver(f, S) ==
  IF S = {} THEN 1
  ELSE LET i == CHOOSE j \in S : TRUE
       IN FMul(f[i], ProdOver(f, S \ {i}), "float64")
FloatNanCall(names) ==
  call.name \in names /\ IsInexact(call.a.dtype) /\ pc \in {"done", "error"}
IntNanCall(names) ==
  call.name \in names /\ ~IsInexact(call.a.dtype) /\ pc \in {"done", "error"}
\* the call ended as the call r of another function did
EndedAs(r) == err = r.err /\ (r.err = "none" => (pc = "done" /\ result = r.result))

\* C18 as stated: for floating input and any axis, keepdims and initial, the
\* result of nanmin and nanmax for a slice whose elements are all NaN is NaN,
\* and for every other slice the extreme of its elements that are not NaN.
C18_AllNaNGivesNaN ==
  (FloatNanCall({"nanmin", "nanmax"}) /\ pc = "done" /\ IsNone(call.where_))
  => \A r \in Indices(result.shape) :
       IF AllNaN(call, r) THEN result.data[r] = NaN
       ELSE result.data[r] =
              ExtremeOver(call.name, call.a.data, NonNan(call, r),
                          IF IsNone(call.initial)
                          THEN Extreme(call.name, call.a.data, NonNan(call, r))
                          ELSE Get(call.initial).v)

\* C18: nanmin and nanmax of floating input, for every axis and keepdims.
\* Without initial and without a mask the result for a slice is the extreme of
\* its elements that are not NaN, and NaN when all of them are NaN.  With
\* initial it is the extreme of initial and the included elements that are
\* not NaN, so initial itself when all of them are NaN.  A mask without
\* initial is rejected.
C18_NanMinMax ==
  FloatNanCall({"nanmin", "nanmax"})
  => IF IsNone(call.initial) /\ ~IsNone(call.where_)
     THEN pc = "error" /\ err = "no_identity_where"
     ELSE /\ pc = "done"
          /\ result.shape = ReducedShape(call)
          /\ \A r \in Indices(result.shape) :
               result.data[r] =
                 IF ~IsNone(call.initial)
                 THEN ExtremeOver(call.name, call.a.data, NonNan(call, r),
                                  Get(call.initial).v)
                 ELSE IF NonNan(call, r) = {} THEN NaN
                 ELSE Extreme(call.name, call.a.data, NonNan(call, r))
\* nanmin of [[NaN, NaN], [NaN, 3]] over axis 1 is [NaN, 3]
C18_Witness ==
  /\ call.name = "nanmin" /\ pc = "done" /\ call.a.dtype = "float32"
  /\ IsNone(call.initial) /\ call.a.shape = << 2, 2 >> /\ call.axis = AxisInt(1)
  /\ call.a.data[<< 0, 0 >>] = NaN /\ call.a.data[<< 0, 1 >>] = NaN
  /\ call.a.data[<< 1, 0 >>] = NaN /\ call.a.data[<< 1, 1 >>] = 3
  /\ ~call.keepdims /\ result.data[<< 0 >>] = NaN /\ result.data[<< 1 >>] = 3
\* nanmax of an array of NaNs with initial = 1 is 1
C18_InitialWitness ==
  /\ call.name = "nanmax" /\ pc = "done" /\ ~IsNone(call.initial)
  /\ IsNone(call.where_) /\ call.axis = AxisNone /\ call.a.shape = << 2, 2 >>
  /\ AllNaN(call, << >>) /\ ~call.keepdims /\ result.data[<< >>] = 1
\* nanmin of float8_e4m3fn values, which have no infinity
C18_Float8Witness ==
  /\ call.name = "nanmin" /\ pc = "done" /\ call.a.dtype = "float8_e4m3fn"
  /\ IsNone(call.initial) /\ call.a.shape = << MaxDim >> /\ call.axis = AxisNone
  /\ call.a.data[<< 0 >>] = NaN /\ call.a.data[<< 1 >>] = 3
  /\ result.data[<< >>] = 3

\* C19: nansum and nanprod of floating input are the sum and the product of
\* the included elements that are not NaN (0 and 1 when there is none),
\* combined with initial when that is given; on integer and boolean input
\* they end as sum and prod do with the same arguments.
C19_NanSumProd ==
  /\ FloatNanCall({"nansum", "nanprod"})
     => /\ pc = "done"
        /\ result.shape = ReducedShape(call)
        /\ \A r \in Indices(result.shape) :
             LET over == IF call.name = "nansum"
                         THEN SumOver(call.a.data, NonNan(call, r))
                         ELSE ProdOver(call.a.data, NonNan(call, r))
             IN /\ result.data[r] =
                     IF IsNone(call.initial) THEN over
                     ELSE IF call.name = "nansum"
                     THEN FAdd(Get(call.initial).v, over, "float64")
                     ELSE FMul(Get(call.initial).v, over, "float64")
                /\ (NonNan(call, r) = {} /\ IsNone(call.initial))
                   => result.data[r] = IF call.name = "nansum" THEN 0 ELSE 1
  /\ IntNanCall({"nansum", "nanprod"})
     => EndedAs(Reduce(IF call.name = "nansum" THEN "sum" ELSE "prod", call.a, call.axis,
                       call.dtype, call.out, call.keepdims, call.initial, call.where_,
                       x64))
\* nanprod of [[NaN, 3], [3, -2]] is -18
C19_Witness ==
  /\ call.name = "nanprod" /\ pc = "done" /\ call.a.dtype = "float32"
  /\ IsNone(call.initial) /\ IsNone(call.where_) /\ call.axis = AxisNone
  /\ call.a.shape = << 2, 2 >>
  /\ call.a.data[<< 0, 0 >>] = NaN /\ call.a.data[<< 0, 1 >>] = 3
  /\ call.a.data[<< 1, 0 >>] = 3 /\ call.a.data[<< 1, 1 >>] = -2
  /\ result.data[<< >>] = -18
\* nansum of NaNs only is 0
C19_AllNaNWitness ==
  /\ call.name = "nansum" /\ pc = "done" /\ call.a.dtype = "float32"
  /\ IsNone(call.initial) /\ IsNone(call.where_) /\ call.axis = AxisInt(0)
  /\ call.a.shape = << 2, 2 >> /\ AllNaN(call, << 0 >>) /\ ~call.keepdims
  /\ call.a.data[<< 0, 1 >>] = 3 /\ call.a.data[<< 1, 1 >>] = -2
  /\ result.data[<< 0 >>] = 0 /\ result.data[<< 1 >>] = 1
\* nansum of int8 input with a mask and initial
C19_IntWitness ==
  /\ call.name = "nansum" /\ pc = "done" /\ call.a.dtype = "int8"
  /\ ~IsNone(call.initial) /\ ~IsNone(call.where_) /\ call.axis = AxisNone
  /\ call.a.shape = << 2, 2 >> /\ result.dtype = "int32"

\* C20: every element of nanmean of floating input is the sum of the included
\* elements of its slice that are not NaN divided by their number, and NaN
\* when there is none; on integer and boolean input nanmean ends as mean does
\* with the same arguments.
C20_NanMean ==
  /\ (FloatNanCall({"nanmean"}) /\ IsNone(call.out) /\ IsNone(call.dtype))
     => /\ pc = "done"
        /\ result.shape = ReducedShape(call)
        /\ \A r \in Indices(result.shape) :
             result.data[r] =
               IF NonNan(call, r) = {} THEN NaN
               ELSE FDiv(SumOver(call.a.data, NonNan(call, r)),
                         Cardinality(NonNan(call, r)), "float64")
  /\ (IntNanCall({"nanmean"}) /\ IsNone(call.out))
     => EndedAs(mean(call.a, call.axis, call.dtype, call.out, call.keepdims, call.where_,
                     x64))
\* nanmean of [[NaN, 3], [3, -2]] is 4/3
C20_Witness ==
  /\ call.name = "nanmean" /\ pc = "done" /\ call.a.dtype = "float32"
  /\ IsNone(call.where_) /\ call.axis = AxisNone /\ call.a.shape = << 2, 2 >>
  /\ call.a.data[<< 0, 0 >>] = NaN /\ call.a.data[<< 0, 1 >>] = 3
  /\ call.a.data[<< 1, 0 >>] = 3 /\ call.a.data[<< 1, 1 >>] = -2
  /\ result.data[<< >>] = MkQ(4, 3)
\* nanmean of int8 input under a mask
C20_IntWitness ==
  /\ call.name = "nanmean" /\ pc = "done" /\ call.a.dtype = "int8"
  /\ ~IsNone(call.where_) /\ call.a.shape = << 2, 2 >> /\ call.axis = AxisInt(0)

\* ---------------------------------------------------------------------------
\* The order of validation and computation in the reduction core
\* ---------------------------------------------------------------------------

\* the failures of _reduction that are raised ahead of the reduce
EarlyErrors ==
  {"out_not_supported", "no_identity_where", "axis_out_of_bounds", "duplicate_axis",
   "zero_size", "incompatible_shapes", "named_not_implemented"}

\* C29 as stated: a call of the reduction core that fails, for whatever
\* reason (the non-scalar initial included), has invoked neither the backend
\* reduce nor the collective strategy.
C29_NoReduceOnFailure ==
  (InReduction /\ pc = "error") => backend = << >>

\* C29 amended: every failure but the non-scalar initial is raised with no
\* backend reduce and no collective strategy invoked; the non-scalar initial
\* is raised after the one reduce of the call has been invoked, and nothing
\* is invoked after a failure.
C29_ValidateThenCompute ==
  /\ (InReduction /\ pc = "error") =>
       /\ err \in EarlyErrors \cup {"initial_not_scalar"}
       /\ err \in EarlyErrors => backend = << >>
       /\ err = "initial_not_scalar" =>
            /\ Len(backend) = 1
            /\ ~IsNone(call.initial) /\ ~InitialIsScalar(call.initial)
  /\ (InReduction /\ backend # << >> /\ pc # "error") =>
       /\ pc \in {"initial", "finish", "done"}
       /\ CheckArgs(call) = "none"
       /\ (~IsNone(call.initial) /\ pc \in {"finish", "done"}) => InitialIsScalar(call.initial)

C29_Witness ==
  /\ InReduction /\ pc = "error" /\ err = "named_not_implemented" /\ backend = << >>

C29_ZeroSizeWitness ==
  /\ InReduction /\ pc = "error" /\ err = "zero_size" /\ backend = << >>

C29_InitialWitness ==
  /\ InReduction /\ pc = "error" /\ err = "initial_not_scalar" /\ Len(backend) = 1

(***************************************************************************)
(* cumulative_sum on arrays of every content.                              *)
(***************************************************************************)
CumulativeDTypes == {"bool", "int8", "uint8", "int32", "float32"}
\* the element values: the extremes of the narrow integers, whose running sum
\* leaves the dtype's range, and NaN among the floats
CumulativeElems(d) ==
  CASE d \in ValueDTypes -> Elems(d)
    [] d = "int32" -> {-3, 4}
    [] d = "float32" -> {NaN, -2, 3}
CumulativeShapes == {<< >>, << 0 >>} \cup ValueShapes

CumulativeSumEnter(c, flag) ==
  /\ pc = "idle"
  /\ x64' = flag
  /\ call' = c
  /\ a' = c.a
  /\ pc' = "cumulative_sum"
  /\ UNCHANGED << pos_dims, dims, result_dtype, computation_dtype, op, init_val,
                  result, err, backend, promoted >>

\* cumulative_sum with every axis argument, with and without the zero slice
CumulativeSumCall ==
  /\ pc = "idle"
  /\ \E d \in CumulativeDTypes, s \in CumulativeShapes :
       \E arr \in ArraysOver(d, s, CumulativeElems(d)),
          ax \in {AxisNone} \cup { AxisInt(x) : x \in (-(Len(s) + 1)) .. Len(s) },
          dt \in {None, Some("int8")}, ii \in BOOLEAN, f \in BOOLEAN :
         CumulativeSumEnter([name |-> "cumulative_sum", a |-> arr, axis |-> ax, dtype |-> dt,
                             out |-> None, include_initial |-> ii], f)

NextCumulative == CumulativeSumCall \/ CumulativeSumStep \/ Return

SpecCumulative == Init /\ [][NextCumulative]_vars

\* cumsum(x) of the call's input along axis 0
CumsumOfInput == _cumulative_reduction([name |-> "cumsum", a |-> call.a, axis |-> AxisInt(0), dtype |-> None, out |-> None], x64)
\* a call cumulative_sum(x) on a rank-1 x without axis and dtype has returned
CumulativeSumOfVector ==
  /\ pc = "done" /\ call.name = "cumulative_sum"
  /\ Rank(call.a) = 1 /\ IsNone(call.dtype) /\ call.axis.kind = "none"

\* C21 as stated: for rank-1 x of every dtype, cumulative_sum(x,
\* include_initial=True) has length len(x)+1, element 0 is 0 and elements 1..
\* equal cumsum(x) elementwise; with include_initial=False the output has the
\* shape of x.
C21_PrefixOfCumsum ==
  CumulativeSumOfVector =>
    IF call.include_initial
    THEN /\ result.shape = << call.a.shape[1] + 1 >>
         /\ result.data[<< 0 >>] = 0
         /\ \A k \in 1 .. call.a.shape[1] :
              result.data[<< k >>] = CumsumOfInput.result.data[<< k - 1 >>]
    ELSE result.shape = call.a.shape

\* the dtype cumulative_sum accumulates in: the dtype argument, else the
\* input's dtype with bool and the narrow integers promoted to default width
AccumulationDType ==
  IF IsNone(call.dtype) THEN CanonicalizeDType(_promote_integer_dtype(call.a.dtype, x64), x64)
  ELSE Get(call.dtype)
\* the sum of the first k elements of the call's input along the axis through
\* index i, each converted to dtype d and added in d
RECURSIVE RunningSum(_, _, _, _)
RunningSum(i, ax, k, d) ==
  IF k = 0 THEN 0
  ELSE ApplyOp("add", RunningSum(i, ax, k - 1, d),
               ConvertValue(call.a.data[[i EXCEPT ![ax + 1] = k - 1]], d), d)
CallAxis ==
  IF call.axis.kind = "none" THEN 0 ELSE _canonicalize_axis(call.axis.v[1], Rank(call.a))

\* C21 amended: cumulative_sum accumulates in the promoted dtype.  The output
\* has the shape of x, with one more entry along the axis under
\* include_initial, whose first entry is 0; every other entry is the sum of
\* the elements before it taken in the accumulation dtype, which is what
\* cumsum(x) returns only when the input's dtype is not promoted.
C21_CumulativeSum ==
  (pc = "done" /\ call.name = "cumulative_sum") =>
    /\ result.dtype = AccumulationDType
    /\ result.shape = IF call.include_initial
                      THEN [call.a.shape EXCEPT ![CallAxis + 1] = @ + 1]
                      ELSE call.a.shape
    /\ \A i \in Indices(result.shape) :
         result.data[i] =
           RunningSum(i, CallAxis,
                      IF call.include_initial THEN i[CallAxis + 1] ELSE i[CallAxis + 1] + 1,
                      AccumulationDType)
    /\ (CumulativeSumOfVector /\ call.a.dtype = AccumulationDType) =>
         /\ CumsumOfInput.result.dtype = result.dtype
         /\ \A k \in 1 .. call.a.shape[1] :
              result.data[<< IF call.include_initial THEN k ELSE k - 1 >>]
                = CumsumOfInput.result.data[<< k - 1 >>]

\* an int8 vector whose running sum leaves int8, with the zero slice
C21_Witness ==
  /\ CumulativeSumOfVector /\ call.include_initial
  /\ call.a.dtype = "int8" /\ call.a.shape = << 2 >>
  /\ call.a.data[<< 0 >>] = 127 /\ call.a.data[<< 1 >>] = 127
  /\ result.dtype = "int32" /\ result.shape = << 3 >>
  /\ result.data[<< 0 >>] = 0 /\ result.data[<< 2 >>] = 254
  /\ CumsumOfInput.result.data[<< 1 >>] = -2

\* a float vector, where cumulative_sum and cumsum agree
C21_FloatWitness ==
  /\ CumulativeSumOfVector /\ call.include_initial
  /\ call.a.dtype = "float32" /\ call.a.shape = << 2 >>
  /\ result.data[<< 2 >>] = 1 /\ CumsumOfInput.result.data[<< 1 >>] = 1

\* the scalar input and the missing axis of a matrix are rejected
C21_ErrorWitness ==
  /\ pc = "error" /\ call.name = "cumulative_sum" /\ err = "axis_required"


\* a cumulative reduction called without a dtype argument has returned
CumulativeWithoutDType ==
  /\ pc = "done" /\ call.name \in {"cumsum", "cumprod", "nancumsum", "nancumprod"}
  /\ IsNone(call.dtype)

\* C22 as stated: cumsum, cumprod, nancumsum and nancumprod called without a
\* dtype argument return the dtype of the input, for every input dtype.
C22_OutputDTypeIsInput ==
  CumulativeWithoutDType => result.dtype = call.a.dtype

\* what the code does: the dtype of the input is kept unless it is bool, which
\* becomes the default integer
C22_OutputDTypeButBool ==
  CumulativeWithoutDType =>
    result.dtype = IF call.a.dtype = "bool" THEN DefaultInt(x64) ELSE call.a.dtype

\* cumsum of a bool array returns the default integer dtype
C22_Witness ==
  /\ CumulativeWithoutDType /\ call.name = "cumsum" /\ call.a.dtype = "bool"
  /\ result.dtype = "int32"

\* an int8 input keeps its dtype
C22_NarrowWitness ==
  /\ CumulativeWithoutDType /\ call.name = "cumprod" /\ call.a.dtype = "int8"
  /\ result.dtype = "int8"

(***************************************************************************)
(* The quantile family: validation, order statistics, interpolation.       *)
(***************************************************************************)
InQuantile == pc # "idle" /\ call.name \in QuantileNames
\* the arguments the claim names: a method outside the five, a complex
\* input, a q of rank above 1
RejectedArguments ==
  \/ QuantileMethod(call) \notin {"linear", "lower", "higher", "midpoint", "nearest"}
  \/ call.a.dtype \in ComplexDTypes
  \/ Len(QuantileQShape(call)) > 1

\* C23: every function of the quantile family raises a validation error,
\* with no sort and no gather performed, when the method is not one of the
\* five, the input is complex or q has rank above 1; a call that sorts has
\* passed all three tests.
C23_ValidationBeforeSort ==
  InQuantile =>
    /\ RejectedArguments =>
         /\ pc \in {"quantile", "error"}
         /\ backend = << >>
         /\ pc = "error" =>
              err \in {"overwrite_or_out", "bad_method", "complex_input",
                       "axis_out_of_bounds", "repeated_axis", "q_rank"}
    /\ (pc = "error" /\ ~call.overwrite /\ QuantileMethod(call) = "cubic") => err = "bad_method"
    /\ pc = "error" => backend = << >>
    /\ pc \in {"quantile", "validated"} => backend = << >>
    /\ pc = "done" => ~RejectedArguments /\ Len(backend) = 2 /\ backend[1].fn = "sort"

C23_Witness ==
  /\ InQuantile /\ pc = "error" /\ err = "bad_method" /\ call.name = "nanpercentile"
  /\ call.method = "cubic" /\ backend = << >>
C23_ComplexWitness ==
  /\ InQuantile /\ pc = "error" /\ err = "complex_input" /\ call.name = "median"
  /\ backend = << >>
C23_RankWitness ==
  /\ InQuantile /\ pc = "error" /\ err = "q_rank" /\ call.name = "quantile"
  /\ Len(call.q.shape) = 2 /\ backend = << >>
C23_SortedWitness ==
  /\ InQuantile /\ pc = "done" /\ Len(backend) = 2

(***************************************************************************)
(* Calls of the quantile family on arrays of every content.                *)
(***************************************************************************)
MkQuantile(name, arr, q, axis, method, keepdims) ==
  [name |-> name, a |-> arr, q |-> q, q_shape |-> q.shape, axis |-> axis, method |-> method,
   keepdims |-> keepdims, overwrite |-> FALSE]
\* the q of the calls: below 0, the ends, the quarters, above 1
QValues == {MkQ(-1, 2), 0, MkQ(1, 4), MkQ(1, 2), MkQ(3, 4), 1, MkQ(3, 2)}
QScalar(v) == [shape |-> << >>, data |-> [i \in {<< >>} |-> v]]
QVector(s) == [shape |-> << Len(s) >>, data |-> [i \in Indices(<< Len(s) >>) |-> s[i[1] + 1]]]
\* q as the function of the family takes it: a percentage for the percentiles
QFor(name, q) ==
  IF name \in {"percentile", "nanpercentile"}
  THEN [shape |-> q.shape, data |-> [i \in Indices(q.shape) |-> FMul(q.data[i], 100, "float32")]]
  ELSE q
\* the shapes without an empty dimension, of rank 1 and 2
QuantileShapes == { s \in ValueShapes : Len(s) \in {1, 2} }
\* None, every axis, the last axis as a 1-tuple, the first and the last as a
\* pair
QuantileValueAxes(rank) ==
  {AxisNone} \cup { AxisInt(x) : x \in 0 .. (rank - 1) }
  \cup {AxisSeq(<< -1 >>), AxisSeq(<< 0, -1 >>)}

\* quantile and nanquantile on the arrays over NaN, -2 and 3
QuantileNanCall ==
  /\ pc = "idle"
  /\ \E n \in {"quantile", "nanquantile"}, s \in QuantileShapes :
       \E arr \in ArraysOver("float32", s, {NaN, -2, 3}), ax \in QuantileValueAxes(Len(s)),
          q \in {QScalar(MkQ(1, 2)), QScalar(1), QVector(<< MkQ(3, 4), MkQ(1, 4) >>)},
          m \in Methods, k \in BOOLEAN :
         QuantileEnter(MkQuantile(n, arr, q, ax, m, k), FALSE)

\* the vectors of distinct elements among 1 .. 4, in every order
DistinctVectors ==
  UNION { { arr \in ArraysOver("float32", << n >>, 1 .. 4) :
              \A i, j \in Indices(<< n >>) : i # j => arr.data[i] # arr.data[j] } :
          n \in 1 .. MaxSize }
\* the vectors over an infinity, the largest finite value and 4: multiples of
\* 4, whose products with the quarters are whole
ExtremeVectors ==
  UNION { ArraysOver("float32", << n >>, {4, FInfoMax("float32"), PosInf}) : n \in 1 .. MaxDim }
\* every method at every q on the vectors without NaN
QuantileMethodCall ==
  /\ pc = "idle"
  /\ \E n \in {"quantile", "nanquantile", "percentile", "nanpercentile"},
        arr \in DistinctVectors \cup ExtremeVectors, v \in QValues, m \in Methods :
       QuantileEnter(MkQuantile(n, arr, QFor(n, QScalar(v)), AxisInt(0), m, FALSE), FALSE)

\* median and nanmedian
MedianCall ==
  /\ pc = "idle"
  /\ \E n \in {"median", "nanmedian"}, s \in QuantileShapes :
       \E arr \in ArraysOver("float32", s, {NaN, -2, 3}) \cup DistinctVectors \cup ExtremeVectors,
          k \in BOOLEAN :
         \E ax \in QuantileValueAxes(Rank(arr)) :
           QuantileEnter(MkQuantile(n, arr, QScalar(0), ax, "linear", k), FALSE)

NextQuantile ==
  \/ QuantileNanCall
  \/ QuantileMethodCall
  \/ MedianCall
  \/ QuantileValidate
  \/ QuantileCompute
  \/ Return

SpecQuantile == Init /\ [][NextQuantile]_vars

\* _quantile as one function: the error raised or the array returned
QuantileOf(c) ==
  IF QuantilePrepare(c, x64).err # "none" THEN Failed(QuantilePrepare(c, x64).err)
  ELSE Returned(QuantileResult(QuantilePrepare(c, x64).a, QuantilePrepare(c, x64).axis, c,
                               QuantilePrepare(c, x64).keepdim, x64))
QuantileDone == pc = "done" /\ call.name \in QuantileNames
QuantileTrivial == QuantileDone => result.dtype = "float32"


\* the position among the output's indices of the q and of the slice
QIndex(j) == SubSeq(j, 1, Len(QuantileQ(call).shape))
SliceIndex(j) == SubSeq(j, Len(QuantileQ(call).shape) + 1, Len(j))
\* the elements of the input reduced into the slice r that are not NaN
NonNanOf(r) == { i \in Slice(call, r) : call.a.data[i] # NaN }
\* the number of elements over S below v, and up to v
Below(S, v) == Cardinality({ i \in S : call.a.data[i] # v /\ FLessEq(call.a.data[i], v) })
UpTo(S, v) == Cardinality({ i \in S : FLessEq(call.a.data[i], v) })
\* the k-th smallest, from 0, of the input's values over S, which holds no NaN
OrderStatistic(S, k) ==
  CHOOSE v \in { call.a.data[i] : i \in S } : Below(S, v) <= k /\ k < UpTo(S, v)
\* k brought into 0 .. n - 1
Clip(k, n) == IF k < 0 THEN 0 ELSE IF k > n - 1 THEN n - 1 ELSE k
\* the value the method gives between the order statistics of S at q * (n - 1)
BetweenAt(S, x, method) ==
  Interpolate(method, OrderStatistic(S, Clip(Floor(x), Cardinality(S))),
              OrderStatistic(S, Clip(Ceil(x), Cardinality(S))),
              FSub(1, FSub(x, Floor(x), "float32"), "float32"), FSub(x, Floor(x), "float32"),
              "float32", "float32")
QuantileOver(S, qv, method) == BetweenAt(S, FMul(qv, Cardinality(S) - 1, "float32"), method)

\* C24: quantile returns NaN for every output slice that holds a NaN and, for
\* every other slice, the quantile of the slice, whatever the other slices
\* hold; nanquantile returns for each slice the quantile of the elements that
\* are not NaN, the index scaled by their number, and NaN for a slice of NaNs.
C24_NanOrderStatistics ==
  (pc = "done" /\ call.name \in {"quantile", "nanquantile"}) =>
    /\ result.shape = call.q.shape \o ReducedShape(call)
    /\ \A j \in Indices(result.shape) :
         result.data[j] =
           IF call.name = "quantile"
           THEN (IF NonNanOf(SliceIndex(j)) # Slice(call, SliceIndex(j)) THEN NaN
                 ELSE QuantileOver(Slice(call, SliceIndex(j)), call.q.data[QIndex(j)],
                                   call.method))
           ELSE (IF NonNanOf(SliceIndex(j)) = {} THEN NaN
                 ELSE QuantileOver(NonNanOf(SliceIndex(j)), call.q.data[QIndex(j)],
                                   call.method))

\* nanquantile([[NaN, 3], [-2, 3]], 1/2, axis=1) is [3, 1/2]
C24_Witness ==
  /\ pc = "done" /\ call.name = "nanquantile" /\ call.method = "linear"
  /\ call.a.shape = << 2, 2 >> /\ call.axis = AxisInt(1) /\ ~call.keepdims
  /\ call.q = QScalar(MkQ(1, 2))
  /\ call.a.data[<< 0, 0 >>] = NaN /\ call.a.data[<< 0, 1 >>] = 3
  /\ call.a.data[<< 1, 0 >>] = -2 /\ call.a.data[<< 1, 1 >>] = 3
  /\ result.data[<< 0 >>] = 3 /\ result.data[<< 1 >>] = MkQ(1, 2)
\* quantile of the same array is [NaN, 1/2]
C24_QuantileWitness ==
  /\ pc = "done" /\ call.name = "quantile" /\ call.method = "linear"
  /\ call.a.shape = << 2, 2 >> /\ call.axis = AxisInt(1) /\ ~call.keepdims
  /\ call.q = QScalar(MkQ(1, 2))
  /\ call.a.data[<< 0, 0 >>] = NaN /\ call.a.data[<< 0, 1 >>] = 3
  /\ call.a.data[<< 1, 0 >>] = -2 /\ call.a.data[<< 1, 1 >>] = 3
  /\ result.data[<< 0 >>] = NaN /\ result.data[<< 1 >>] = MkQ(1, 2)
\* a slice of NaNs under nanquantile
C24_AllNaNWitness ==
  /\ pc = "done" /\ call.name = "nanquantile" /\ call.a.shape = << 2 >>
  /\ \A i \in Indices(call.a.shape) : call.a.data[i] = NaN
  /\ result.data[<< >>] = NaN /\ result.shape = << >>


\* a call on a vector without NaN along its axis has returned a scalar
VectorDone ==
  /\ pc = "done" /\ call.name \in QuantileNames /\ Rank(call.a) = 1
  /\ QuantileQ(call).shape = << >> /\ ~call.keepdims
  /\ \A i \in Indices(call.a.shape) : call.a.data[i] # NaN
AllOf == Indices(call.a.shape)
\* the index q * (n - 1), its fractional part, and the order statistics at
\* its floor and its ceiling brought into 0 .. n - 1
ScaledQ == FMul(QuantileQ(call).data[<< >>], call.a.shape[1] - 1, "float32")
Fraction == FSub(ScaledQ, Floor(ScaledQ), "float32")
LowStatistic == OrderStatistic(AllOf, Clip(Floor(ScaledQ), call.a.shape[1]))
HighStatistic == OrderStatistic(AllOf, Clip(Ceil(ScaledQ), call.a.shape[1]))

\* C25: with low and high the order statistics and f the fractional part of
\* q * (n - 1), linear is low*(1-f) + high*f, lower is low, higher is high,
\* midpoint is (low+high)/2, and nearest is low when f <= 1/2 and high
\* otherwise, a tie taking the low side.
C25_Methods ==
  VectorDone =>
    result.data[<< >>] =
      CASE QuantileMethod(call) = "linear" ->
             FAdd(FMul(LowStatistic, FSub(1, Fraction, "float32"), "float32"),
                  FMul(HighStatistic, Fraction, "float32"), "float32")
        [] QuantileMethod(call) = "lower" -> LowStatistic
        [] QuantileMethod(call) = "higher" -> HighStatistic
        [] QuantileMethod(call) = "midpoint" ->
             FDiv(FAdd(LowStatistic, HighStatistic, "float32"), 2, "float32")
        [] QuantileMethod(call) = "nearest" ->
             IF FLessEq(Fraction, MkQ(1, 2)) THEN LowStatistic ELSE HighStatistic

\* quantile([1, 2, 3, 4], 0.5) by a method
ExampleCall(method) ==
  /\ VectorDone /\ call.name = "quantile" /\ call.method = method
  /\ call.a.shape = << 4 >> /\ \A k \in 0 .. 3 : call.a.data[<< k >>] = k + 1
  /\ call.q = QScalar(MkQ(1, 2))
\* the spec's example: 2 for nearest, the tie
C25_Witness == ExampleCall("nearest") /\ Fraction = MkQ(1, 2) /\ result.data[<< >>] = 2
C25_LinearWitness == ExampleCall("linear") /\ result.data[<< >>] = MkQ(5, 2)
C25_LowerWitness == ExampleCall("lower") /\ result.data[<< >>] = 2
C25_HigherWitness == ExampleCall("higher") /\ result.data[<< >>] = 3
C25_MidpointWitness == ExampleCall("midpoint") /\ result.data[<< >>] = MkQ(5, 2)
\* nearest above the tie: quantile([4, 1, 3, 2], 3/4) reads index 9/4
C25_NearestHighWitness ==
  /\ VectorDone /\ call.method = "nearest" /\ call.a.shape = << 2 >>
  /\ call.a.data[<< 0 >>] = 3 /\ call.a.data[<< 1 >>] = 1
  /\ call.q = QScalar(MkQ(3, 4)) /\ call.name = "quantile" /\ result.data[<< >>] = 3


\* the gather of a call that has returned: for each output element the count
\* and the two indices, before the reshape of keepdims
Gathered == backend[2].index
\* the kept index of an element of the gather: under keepdims its index
\* holds a 0 at the reduced axis
KeptIndex(j) ==
  IF call.keepdims THEN DropAt(SliceIndex(j), {dims[1]}, 0) ELSE SliceIndex(j)
\* the elements of the input that share a kept index
SliceOfKept(kept) ==
  { i \in Indices(call.a.shape) : DropAt(i, ReducedAxes(call), 0) = kept }
\* the number of elements the index is scaled by: those of the slice, or
\* those of them that are not NaN
EffectiveCount(j) ==
  Cardinality({ i \in SliceOfKept(KeptIndex(j)) : ~SquashNans(call) \/ call.a.data[i] # NaN })

\* C27: for q in [0, 1] and an effective count n >= 1 the indices gathered at
\* are floor(q*(n-1)) and ceil(q*(n-1)), which satisfy
\* 0 <= low <= high <= n-1 and high - low <= 1, and address positions of the
\* sorted axis.
C27_Indices ==
  (pc = "done" /\ call.name \in QuantileNames) =>
    \A j \in DOMAIN Gathered :
      /\ Gathered[j].n = EffectiveCount(j)
      /\ (Gathered[j].n >= 1 /\ FLessEq(0, QuantileQ(call).data[QIndex(j)])
          /\ FLessEq(QuantileQ(call).data[QIndex(j)], 1)) =>
           /\ Gathered[j].low
                = Floor(FMul(QuantileQ(call).data[QIndex(j)], Gathered[j].n - 1, "float32"))
           /\ Gathered[j].high
                = Ceil(FMul(QuantileQ(call).data[QIndex(j)], Gathered[j].n - 1, "float32"))
           /\ 0 <= Gathered[j].low /\ Gathered[j].low <= Gathered[j].high
           /\ Gathered[j].high <= Gathered[j].n - 1
           /\ Gathered[j].high - Gathered[j].low <= 1
           /\ Gathered[j].n <= a.shape[dims[1] + 1]

\* nanquantile([NaN, 3, -2, NaN], 1/2): two elements count, indices 0 and 1
C27_Witness ==
  /\ pc = "done" /\ call.name = "nanquantile" /\ call.a.shape = << 2, 2 >>
  /\ call.axis = AxisNone /\ ~call.keepdims /\ call.q = QScalar(MkQ(1, 2))
  /\ call.a.data[<< 0, 0 >>] = NaN /\ call.a.data[<< 1, 1 >>] = NaN
  /\ call.a.data[<< 0, 1 >>] = 3 /\ call.a.data[<< 1, 0 >>] = -2
  /\ Gathered[<< >>].n = 2 /\ Gathered[<< >>].low = 0 /\ Gathered[<< >>].high = 1
\* quantile of a vector of four at q = 1: both indices are 3
C27_EndWitness ==
  /\ pc = "done" /\ call.name = "quantile" /\ call.a.shape = << 4 >>
  /\ call.q = QScalar(1)
  /\ Gathered[<< >>].n = 4 /\ Gathered[<< >>].low = 3 /\ Gathered[<< >>].high = 3


\* the smallest and the largest element of the vector of the call
Smallest == OrderStatistic(AllOf, 0)
Largest == OrderStatistic(AllOf, call.a.shape[1] - 1)
QOfCall == QuantileQ(call).data[<< >>]

\* C30 as stated: for every slice without NaN, every method and every real q
\* the result lies between the smallest and the largest element of the
\* slice, q <= 0 gives the smallest and q >= 1 the largest, and the two
\* weights are in [0, 1] and add up to 1.
C30_WithinRange ==
  VectorDone =>
    /\ result.data[<< >>] # NaN
    /\ FLessEq(Smallest, result.data[<< >>]) /\ FLessEq(result.data[<< >>], Largest)
    /\ FLessEq(QOfCall, 0) => result.data[<< >>] = Smallest
    /\ FLessEq(1, QOfCall) => result.data[<< >>] = Largest
    /\ FAdd(Gathered[<< >>].low_weight, Gathered[<< >>].high_weight, "float32") = 1
    /\ FLessEq(0, Gathered[<< >>].low_weight) /\ FLessEq(Gathered[<< >>].low_weight, 1)
    /\ FLessEq(0, Gathered[<< >>].high_weight) /\ FLessEq(Gathered[<< >>].high_weight, 1)

\* whether low + high leaves the finite range of the dtype
MidpointOverflows ==
  /\ QuantileMethod(call) = "midpoint"
  /\ ~IsInfV(LowStatistic) /\ ~IsInfV(HighStatistic)
  /\ IsInfV(FAdd(LowStatistic, HighStatistic, "float32"))
\* whether linear multiplies an infinite order statistic by a zero weight, or
\* adds the two infinities
LinearOfInfinity ==
  /\ QuantileMethod(call) = "linear"
  /\ \/ IsInfV(LowStatistic) /\ Gathered[<< >>].low_weight = 0
     \/ IsInfV(HighStatistic) /\ Gathered[<< >>].high_weight = 0
     \/ LowStatistic = NegInf /\ HighStatistic = PosInf

\* what holds of the code: the weights and the saturation of the indices for
\* every q, the range of the result unless the midpoint overflows or linear
\* meets an infinite element
C30_WithinRangeUnlessInfinite ==
  VectorDone =>
    /\ FAdd(Gathered[<< >>].low_weight, Gathered[<< >>].high_weight, "float32") = 1
    /\ FLessEq(0, Gathered[<< >>].low_weight) /\ FLessEq(Gathered[<< >>].low_weight, 1)
    /\ FLessEq(0, Gathered[<< >>].high_weight) /\ FLessEq(Gathered[<< >>].high_weight, 1)
    /\ 0 <= Gathered[<< >>].low /\ Gathered[<< >>].high <= call.a.shape[1] - 1
    /\ FLessEq(QOfCall, 0) => Gathered[<< >>].low = 0 /\ Gathered[<< >>].high = 0
    /\ FLessEq(1, QOfCall) =>
         /\ Gathered[<< >>].low = call.a.shape[1] - 1
         /\ Gathered[<< >>].high = call.a.shape[1] - 1
    /\ MidpointOverflows => result.data[<< >>] = PosInf \/ result.data[<< >>] = NegInf
    /\ LinearOfInfinity => result.data[<< >>] = NaN
    /\ (~MidpointOverflows /\ ~LinearOfInfinity) =>
         /\ result.data[<< >>] # NaN
         /\ FLessEq(Smallest, result.data[<< >>]) /\ FLessEq(result.data[<< >>], Largest)
         /\ FLessEq(QOfCall, 0) => result.data[<< >>] = Smallest
         /\ FLessEq(1, QOfCall) => result.data[<< >>] = Largest

\* quantile([4, inf], 1) by linear is NaN
C30_Witness ==
  /\ VectorDone /\ call.name = "quantile" /\ call.method = "linear"
  /\ call.a.shape = << 2 >> /\ call.a.data[<< 0 >>] = 4 /\ call.a.data[<< 1 >>] = PosInf
  /\ call.q = QScalar(1) /\ result.data[<< >>] = NaN
\* median of the largest finite value alone is +inf
C30_OverflowWitness ==
  /\ VectorDone /\ call.name = "quantile" /\ call.method = "midpoint"
  /\ call.a.shape = << 1 >> /\ call.a.data[<< 0 >>] = FInfoMax("float32")
  /\ result.data[<< >>] = PosInf
\* q above 1 on finite elements: the largest, by every method
C30_SaturationWitness ==
  /\ VectorDone /\ call.name = "quantile" /\ call.method = "linear"
  /\ call.a.shape = << 4 >> /\ call.q = QScalar(MkQ(3, 2))
  /\ Gathered[<< >>].low = 3 /\ Gathered[<< >>].high = 3
  /\ Gathered[<< >>].high_weight = MkQ(1, 2) /\ result.data[<< >>] = 4


\* the call of quantile (nanquantile) that median (nanmedian) is defined by
AsQuantile(c) ==
  [c EXCEPT !.name = IF c.name = "median" THEN "quantile" ELSE "nanquantile",
            !.q = QScalar(MkQ(1, 2)), !.q_shape = << >>, !.method = "midpoint"]
\* the middle order statistic of an odd number of elements, the two middle
\* ones of an even number
Middle(S) == OrderStatistic(S, (Cardinality(S) - 1) \div 2)
UpperMiddle(S) == OrderStatistic(S, Cardinality(S) \div 2)
\* the elements median works on: the slice, for nanmedian those not NaN
MedianOver(r) == IF call.name = "nanmedian" THEN NonNanOf(r) ELSE Slice(call, r)

\* C26 as stated: median(a, axis, keepdims) equals quantile(a, 0.5, axis,
\* method='midpoint', keepdims), and nanmedian nanquantile; for a slice
\* without NaN of odd length it is the middle order statistic, of even length
\* the mean of the two middle order statistics.
C26_Median ==
  (pc = "done" /\ call.name \in {"median", "nanmedian"}) =>
    /\ QuantileOf(AsQuantile(call)) = Returned(result)
    /\ result.shape = ReducedShape(call)
    /\ \A r \in Indices(result.shape) :
         (NonNanOf(r) = Slice(call, r)) =>
           result.data[r] =
             IF Cardinality(Slice(call, r)) % 2 = 1 THEN Middle(Slice(call, r))
             ELSE FDiv(FAdd(Middle(Slice(call, r)), UpperMiddle(Slice(call, r)), "float32"),
                       2, "float32")

\* what holds of the code: the equality with quantile at 0.5 by midpoint for
\* every input, and the value (x + y) * 0.5 of the two middle order
\* statistics x and y (x = y for an odd number), which is x for an odd number
\* unless x + x overflows
C26_MedianIsMidpoint ==
  (pc = "done" /\ call.name \in {"median", "nanmedian"}) =>
    /\ QuantileOf(AsQuantile(call)) = Returned(result)
    /\ result.shape = ReducedShape(call)
    /\ \A r \in Indices(result.shape) :
         IF MedianOver(r) = {} \/ (call.name = "median" /\ NonNanOf(r) # Slice(call, r))
         THEN result.data[r] = NaN
         ELSE /\ result.data[r] =
                   FMul(FAdd(Middle(MedianOver(r)), UpperMiddle(MedianOver(r)), "float32"),
                        MkQ(1, 2), "float32")
              /\ (Cardinality(MedianOver(r)) % 2 = 1
                  /\ ~IsInfV(FAdd(Middle(MedianOver(r)), Middle(MedianOver(r)), "float32")))
                 => result.data[r] = Middle(MedianOver(r))

\* the median of the largest finite value alone is +inf
C26_Witness ==
  /\ pc = "done" /\ call.name = "median" /\ call.a.shape = << 1 >>
  /\ call.a.data[<< 0 >>] = FInfoMax("float32") /\ call.axis = AxisNone /\ ~call.keepdims
  /\ result.data[<< >>] = PosInf
\* an odd number of elements: median([4, 1, 2]) is 2
C26_OddWitness ==
  /\ pc = "done" /\ call.name = "median" /\ call.a.shape = << 3 >> /\ call.axis = AxisNone
  /\ call.a.data[<< 0 >>] = 4 /\ call.a.data[<< 1 >>] = 1 /\ call.a.data[<< 2 >>] = 2
  /\ ~call.keepdims /\ result.data[<< >>] = 2
C26_EvenWitness ==
  /\ pc = "done" /\ call.name = "nanmedian" /\ call.a.shape = << 2, 2 >>
  /\ call.axis = AxisNone /\ call.keepdims
  /\ call.a.data[<< 0, 0 >>] = 3 /\ call.a.data[<< 0, 1 >>] = NaN
  /\ call.a.data[<< 1, 0 >>] = NaN /\ call.a.data[<< 1, 1 >>] = -2
  /\ result.shape = << 1, 1 >> /\ result.data[<< 0, 0 >>] = MkQ(1, 2)


(***************************************************************************)
(* The quantile family over tuples of axes, on arrays of higher rank.      *)
(***************************************************************************)
\* the largest rank of these calls
AxesRank == 4
\* the shape (2, 3, 1, 1, 2, ...) of a rank, and the array of that shape
\* whose elements are their own positions in row-major order
AxesShape(rank) == [k \in 1 .. rank |-> IF k <= 3 THEN (k % 3) + 1 ELSE (k % 2) + 1]
PositionsArray(shape) ==
  MkArray(shape, [i \in Indices(shape) |-> LinearIndex(i, shape)], "float32")
\* the tuples of distinct axes of a rank, in every order
DistinctAxes(rank) ==
  { s \in UNION { [1 .. n -> 0 .. (rank - 1)] : n \in 0 .. rank } :
      \A j, k \in 1 .. Len(s) : j # k => s[j] # s[k] }
QuantileTupleCall ==
  /\ pc = "idle"
  /\ \E n \in {"quantile", "nanquantile"}, r \in 0 .. AxesRank, k \in BOOLEAN :
       \E s \in DistinctAxes(r) :
         QuantileEnter(MkQuantile(n, PositionsArray(AxesShape(r)), QScalar(MkQ(1, 2)),
                                  AxisSeq(s), "lower", k), FALSE)

NextAxes == QuantileTupleCall \/ QuantileValidate \/ QuantileCompute \/ Return

SpecAxes == Init /\ [][NextAxes]_vars

\* the targeted axes of the call, the kept ones in ascending order, the list
\* the swap loop builds
Targeted == { _canonicalize_axis(call.axis.v[k], Rank(call.a)) : k \in 1 .. Len(call.axis.v) }
Kept == Sorted((0 .. (Rank(call.a) - 1)) \ Targeted)
Dimensions == SwapLoop([k \in 1 .. Rank(call.a) |-> k - 1], Kept, 1)
\* the elements of the input whose kept index is r, those of the slice r of
\* the reshaped array
InputSlice(r) ==
  { call.a.data[i] : i \in { x \in Indices(call.a.shape) : DropAt(x, Targeted, 0) = r } }
ReshapedSlice(r) == { a.data[r \o << k >>] : k \in 0 .. (a.shape[Len(a.shape)] - 1) }

\* C28: for a tuple of axes the list built by the swap loop is a permutation
\* of range(rank) whose first entries are the kept axes in ascending order
\* and whose other entries are the targeted axes; the reshaped array has the
\* sizes of the kept dimensions in their order and one trailing axis of the
\* product of the targeted sizes, and each of its slices holds the elements
\* of the multi-axis slice of the input.
C28_SwapLoop ==
  (pc = "validated" /\ call.name \in QuantileNames /\ call.axis.kind = "seq") =>
    /\ Len(Dimensions) = Rank(call.a)
    /\ SeqToSet(Dimensions) = 0 .. (Rank(call.a) - 1)
    /\ SubSeq(Dimensions, 1, Len(Kept)) = Kept
    /\ { Dimensions[k] : k \in (Len(Kept) + 1) .. Rank(call.a) } = Targeted
    /\ a.shape = [k \in 1 .. Len(Kept) |-> call.a.shape[Kept[k] + 1]]
                   \o << ProdSeq(DropAt(call.a.shape, SeqToSet(Kept), 0)) >>
    /\ dims = << Len(Kept) >>
    /\ call.a = PositionsArray(call.a.shape) =>
         \A r \in Indices(SubSeq(a.shape, 1, Len(Kept))) :
           /\ ReshapedSlice(r) = InputSlice(r)
           /\ Cardinality(InputSlice(r)) = a.shape[Len(a.shape)]

\* rank 4, axes (1, 3) targeted: the kept axes 0 and 2 come first
C28_Witness ==
  /\ pc = "validated" /\ call.name = "quantile" /\ Rank(call.a) = 4
  /\ call.axis = AxisSeq(<< 3, 1 >>)
  /\ Dimensions = << 0, 2, 1, 3 >> /\ a.shape = << 2, 1, 3 >>
\* rank 3, axis (0,) targeted: two swaps
C28_TwoSwapsWitness ==
  /\ pc = "validated" /\ Rank(call.a) = 3 /\ call.axis = AxisSeq(<< 0 >>)
  /\ Dimensions = << 1, 2, 0 >> /\ a.shape = << 3, 1, 2 >>

====
